---- MODULE Spec2Model ----
(***************************************************************************)
(* A model of the ledger store (src/utils/storage.js), the transaction     *)
(* screens that drive it, the cloud mirror (Firestore) and the backup file *)
(* utilities of MazKhatWeb.                                                *)
(*                                                                         *)
(* AsyncStorage is a map from keys to blobs.  A blob is absent, a JSON     *)
(* text, or text that JSON.parse rejects.  Every awaited call to           *)
(* AsyncStorage or Firestore may fail: the handlers take the outcome of    *)
(* each such call as an input (a fault record) and follow the try/catch    *)
(* structure of the code.                                                  *)
(***************************************************************************)
EXTENDS Integers, Sequences, FiniteSets, TLC

\* ------------------------------------------------------------------ bounds
\* generateId() is called at most MaxIds times (ledger ids and transaction
\* ids come from the same generator).
MaxIds == 3

\* ... and by the screens when the cloud copy is in play
MaxSyncIds == 2

\* HomeScreen SYNC_COOLDOWN_MS, five minutes; the clock counts minutes.
SYNC_COOLDOWN_MS == 5

\* evaluateMathExpression results a user can enter (0 is rejected by
\* handleConfirm), and the instants a user can pick for a transaction.
Amounts == {0, 1}
Dates == {1, 2}
Names == {"Asha", "Ravi"}

\* ---------------------------------------------------------------- identity
NoUser == "none"
Users == {"u1"}

VARIABLES
    user,           \* auth.currentUser (NoUser when signed out)
    storage,        \* AsyncStorage: key -> blob
    remote,         \* Firestore under users/{uid}: ledgers (id -> document),
                    \* tx (ledger id -> (transaction id -> document)),
                    \* cats (settings/categories)
    viewLedger,     \* the ledger object a screen holds in route.params / state
    idCounter,      \* number of ids generateId has produced
    now,            \* wall clock
    backupFile,     \* the backup file last written by exportDataToBackup
    lastOp,         \* the storage operation that ran last, with its outcome
    deleted,        \* ledger ids deleteLedger removed and nobody saved since,
                    \* and ids of transactions deleted with a resync
    vInput,         \* argument of validateBackupFile
    vResult,        \* its outcome
    home,           \* HomeScreen: its syncing flag, the loadData calls that
                    \* await their reads, the syncs and fetches in flight
    pending,        \* saveLedger calls that have read and not yet written,
                    \* the ledger ids whose save returned true, the
                    \* updateBackupSettings calls that have read and not yet
                    \* written, the sync of the profile screen, and what the
                    \* user last asked of the backup switch
    profile,        \* UserProfileScreen: its categories
    app             \* App: its state (user, isAuthenticated, pinRequired,
                    \* loading), the auth events not yet delivered to its
                    \* listener, the checkPINStatus calls that await
                    \* isPINEnabled, the 5 s timer, the stored PIN switch, and
                    \* whether the PIN was verified since the last sign-in

vars == <<user, storage, remote, viewLedger, idCounter, now, backupFile,
          lastOp, deleted, vInput, vResult, home, pending, profile, app>>

\* ------------------------------------------------------------- AsyncStorage
Absent == [kind |-> "absent"]
Corrupt == [kind |-> "corrupt"]

\* JSON.stringify of a value the app stores; JSON.parse gives it back, and
\* throws on text that is not JSON.
JSONstringify(v) == [kind |-> "json", val |-> v]

JSONparse(blob) ==
    IF blob.kind = "json" THEN [threw |-> FALSE, val |-> blob.val]
    ELSE [threw |-> TRUE]

getLedgersKey(u) == IF u # NoUser THEN "ledgers_" \o u ELSE "ledgers_guest"

getExpensesKey(u) == IF u # NoUser THEN "expenses_" \o u ELSE "expenses_guest"

getCategoriesKey(u) == IF u # NoUser THEN "categories_" \o u ELSE "categories_guest"

getSettingsKey(u) == IF u # NoUser THEN "settings_" \o u ELSE "settings_guest"

\* backup.js writes the imported ledgers under this key.
LEDGERS_KEY == "ledgers"

Identities == Users \cup {NoUser}

Keys ==
    {LEDGERS_KEY}
    \cup {getLedgersKey(u) : u \in Identities}
    \cup {getExpensesKey(u) : u \in Identities}
    \cup {getCategoriesKey(u) : u \in Identities}
    \cup {getSettingsKey(u) : u \in Identities}

EmptyMap == [i \in {} |-> {}]

\* obj[k] = v (a new key is added, an old one overwritten)
Put(obj, k, v) == [i \in DOMAIN obj \cup {k} |-> IF i = k THEN v ELSE obj[i]]

\* delete obj[k]
Remove(obj, k) == [i \in DOMAIN obj \ {k} |-> obj[i]]

\* The outcome of each awaited external call of one operation:
\*   read      AsyncStorage.getItem of the ledgers key rejects
\*   write     AsyncStorage.setItem rejects
\*   sread     AsyncStorage.getItem of the settings key rejects
\*   remote    a Firestore call rejects ...
\*   after     ... after this many Firestore writes of the call went through
\*   rest      a Firestore write of an expense or of the category list rejects
NoFault == [read |-> FALSE, write |-> FALSE, sread |-> FALSE,
            remote |-> FALSE, after |-> 0, rest |-> FALSE]

\* One kind of call fails in an operation: the fault sets of the ledger blob
\* alone, and of every call.
StoreFaults ==
    {NoFault, [NoFault EXCEPT !.read = TRUE], [NoFault EXCEPT !.write = TRUE]}

AllFaults ==
    StoreFaults
    \cup {[NoFault EXCEPT !.sread = TRUE], [NoFault EXCEPT !.rest = TRUE]}
    \cup {[NoFault EXCEPT !.remote = TRUE, !.after = k] : k \in {0, 1}}

\* getAllLedgers without its two catch blocks
getAllLedgers_NoCatch(st, u, f) ==
    IF f.read THEN [ret |-> EmptyMap, threw |-> TRUE]
    ELSE LET jsonValue == st[getLedgersKey(u)] IN
         IF jsonValue.kind = "absent" THEN [ret |-> EmptyMap, threw |-> FALSE]
         ELSE LET p == JSONparse(jsonValue) IN
              IF p.threw THEN [ret |-> EmptyMap, threw |-> TRUE]
              ELSE [ret |-> p.val, threw |-> FALSE]

\* storage.js getAllLedgers: {} when the key is absent, when the text does
\* not parse, and when the read rejects; never throws.
getAllLedgers(st, u, f) ==
    IF f.read THEN [ret |-> EmptyMap, threw |-> FALSE]
    ELSE LET jsonValue == st[getLedgersKey(u)] IN
         IF jsonValue.kind = "absent" THEN [ret |-> EmptyMap, threw |-> FALSE]
         ELSE LET p == JSONparse(jsonValue) IN
              IF p.threw THEN [ret |-> EmptyMap, threw |-> FALSE]
              ELSE [ret |-> p.val, threw |-> FALSE]

\* What getAll() returns in the current state when the read goes through.
Ledgers == getAllLedgers(storage, user, NoFault).ret

\* ------------------------------------------------------------ BackupSettings
NullTime == [isNull |-> TRUE, t |-> 0]
Time(t) == [isNull |-> FALSE, t |-> t]

DefaultSettings == [autoBackup |-> FALSE, lastSync |-> NullTime]

\* storage.js getBackupSettings: the defaults when absent, unparsable or
\* unreadable (autoBackup false in every such case).
getBackupSettings(st, u, f) ==
    IF f.sread THEN DefaultSettings
    ELSE LET jsonValue == st[getSettingsKey(u)] IN
         IF jsonValue.kind = "absent" THEN DefaultSettings
         ELSE LET p == JSONparse(jsonValue) IN
              IF p.threw THEN DefaultSettings ELSE p.val

\* storage.js updateBackupSettings: merge and write back; false on failure.
updateBackupSettings(st, u, patch, f) ==
    LET current == getBackupSettings(st, u, f)
        updated == [k \in DOMAIN current |->
                        IF k \in DOMAIN patch THEN patch[k] ELSE current[k]]
    IN IF f.write THEN [ok |-> FALSE, store |-> st]
       ELSE [ok |-> TRUE,
             store |-> [st EXCEPT ![getSettingsKey(u)] = JSONstringify(updated)]]

\* ------------------------------------------------------ balance arithmetic
\* calculations.js calculateBalance
calculateBalance(currentBalance, type, amount) ==
    IF type = "credit" THEN currentBalance + amount ELSE currentBalance - amount

RECURSIVE InsertByDate(_, _)
\* one step of a stable sort: t goes after every element whose date is not later
InsertByDate(sorted, t) ==
    IF sorted = <<>> THEN <<t>>
    ELSE IF sorted[Len(sorted)].date <= t.date THEN Append(sorted, t)
    ELSE Append(InsertByDate(SubSeq(sorted, 1, Len(sorted) - 1), t),
                sorted[Len(sorted)])

\* The list as it was put together, with no sort.
SortByDate_AsEntered(txs) == txs

RECURSIVE SortByDate(_)
\* Array.prototype.sort((a, b) => new Date(a.date) - new Date(b.date)): stable
SortByDate(txs) ==
    IF txs = <<>> THEN <<>>
    ELSE InsertByDate(SortByDate(SubSeq(txs, 1, Len(txs) - 1)), txs[Len(txs)])

RECURSIVE RunningBalances(_, _)
\* AddTransactionScreen.js:121-126: walk the list, accumulate, set balanceAfter
RunningBalances(txs, start) ==
    IF txs = <<>> THEN <<>>
    ELSE LET t == txs[1]
             b == IF t.type = "credit" THEN start + t.amount ELSE start - t.amount
         IN <<[t EXCEPT !.balanceAfter = b]>> \o RunningBalances(Tail(txs), b)

RECURSIVE DeleteBalance(_)
\* storage.js:140-144: the balance deleteTransaction recomputes
DeleteBalance(txs) ==
    IF txs = <<>> THEN 0
    ELSE LET t == txs[Len(txs)]
             rest == DeleteBalance(SubSeq(txs, 1, Len(txs) - 1))
         IN IF t.type = "credit" THEN rest - t.amount ELSE rest + t.amount

FilterOut(txs, id) == SelectSeq(txs, LAMBDA t : t.id # id)

Tx(id, type, amount, date) ==
    [id |-> id, type |-> type, amount |-> amount, date |-> date, balanceAfter |-> 0]

NoLedger == [id |-> 0, name |-> "", balance |-> 0, transactions |-> <<>>]

Ids == 1..MaxIds

\* ------------------------------------------------------------------ remote
\* storage.js syncLedgerToFirebase: one setDoc for the ledger document, then
\* one per transaction, in order; the first rejection ends the call, which
\* catches and logs it.  Nothing is written when nobody is signed in.
syncLedgerToFirebase(rem, u, ledger, f) ==
    IF u = NoUser THEN rem
    ELSE IF f.remote /\ f.after = 0 THEN rem
    ELSE LET n == Len(ledger.transactions)
             written == IF f.remote /\ f.after - 1 < n THEN f.after - 1 ELSE n
             docs == [i \in {ledger.transactions[k].id : k \in 1..written} |->
                        LET t == CHOOSE t \in {ledger.transactions[k] : k \in 1..written} :
                                     t.id = i
                        IN [type |-> t.type, amount |-> t.amount, date |-> t.date,
                            balanceAfter |-> t.balanceAfter]]
             old == rem.tx[ledger.id]
         IN [rem EXCEPT
               !.ledgers = Put(@, ledger.id,
                               [name |-> ledger.name, balance |-> ledger.balance]),
               !.tx[ledger.id] = [i \in DOMAIN old \cup DOMAIN docs |->
                                    IF i \in DOMAIN docs THEN docs[i] ELSE old[i]]]

\* -------------------------------------------------------------- LedgerStore
\* An operation's outcome: what it returned (ok), whether it threw to its
\* caller, whether one of the calls it awaits failed (fault), and the stores
\* it leaves.
Outcome(ok, threw, fault, st, rem) ==
    [ok |-> ok, threw |-> threw, fault |-> fault, store |-> st, remote |-> rem]

\* saveLedger with the rejected write passed on to the caller
saveLedger_NoCatch(st, rem, u, ledger, f) ==
    LET allLedgers == Put(getAllLedgers(st, u, f).ret, ledger.id, ledger)
        st2 == [st EXCEPT ![getLedgersKey(u)] = JSONstringify(allLedgers)]
        settings == getBackupSettings(st2, u, f)
    IN IF f.write THEN Outcome(FALSE, TRUE, TRUE, st, rem)
       ELSE Outcome(TRUE, FALSE, FALSE, st2,
                    IF settings.autoBackup
                    THEN syncLedgerToFirebase(rem, u, ledger, f) ELSE rem)

\* storage.js saveLedger
saveLedger(st, rem, u, ledger, f) ==
    LET allLedgers == Put(getAllLedgers(st, u, f).ret, ledger.id, ledger)
        st2 == [st EXCEPT ![getLedgersKey(u)] = JSONstringify(allLedgers)]
        settings == getBackupSettings(st2, u, f)
    IN IF f.write THEN Outcome(FALSE, FALSE, TRUE, st, rem)
       ELSE Outcome(TRUE, FALSE, FALSE, st2,
                    IF settings.autoBackup
                    THEN syncLedgerToFirebase(rem, u, ledger, f) ELSE rem)

\* storage.js getExpenses: [] when absent, unparsable or unreadable.
getExpenses(st, u, f) ==
    IF f.read THEN <<>>
    ELSE LET jsonValue == st[getExpensesKey(u)] IN
         IF jsonValue.kind = "absent" THEN <<>>
         ELSE LET p == JSONparse(jsonValue) IN
              IF p.threw THEN <<>> ELSE p.val

\* storage.js:562-571, the ids of the default categories
DefaultCategories ==
    <<"Food", "Travel", "Study", "Rent", "Entertainment", "Health", "Salary", "Other">>

\* storage.js getCategories: the stored list; the defaults when nothing is
\* stored or the text does not parse; [] when the read rejects.
getCategories(st, u, f) ==
    IF f.read THEN <<>>
    ELSE LET jsonValue == st[getCategoriesKey(u)] IN
         IF jsonValue.kind = "absent" THEN DefaultCategories
         ELSE LET p == JSONparse(jsonValue) IN
              IF p.threw THEN DefaultCategories ELSE p.val

RECURSIVE SyncLedgers(_, _, _, _, _)
\* storage.js:298-300: the loop over the ledgers of the snapshot
SyncLedgers(rem, u, all, todo, f) ==
    IF todo = {} THEN rem
    ELSE LET id == CHOOSE i \in todo : TRUE
         IN SyncLedgers(syncLedgerToFirebase(rem, u, all[id], f), u, all,
                        todo \ {id}, f)

\* syncAllToFirebase without the test of auth.currentUser
syncAllToFirebase_NoAuthCheck(st, rem, u, t, f) ==
    LET allLedgers == getAllLedgers(st, u, f).ret
        rem1 == SyncLedgers(rem, u, allLedgers, DOMAIN allLedgers, f)
        rem2 == [rem1 EXCEPT !.cats = [exists |-> TRUE,
                                       list |-> getCategories(st, u, f)]]
        upd == updateBackupSettings(st, u, [lastSync |-> Time(t)], f)
    IN IF f.rest THEN Outcome(FALSE, FALSE, TRUE, st, rem1)
       ELSE Outcome(TRUE, FALSE, FALSE, upd.store, rem2)

\* storage.js syncAllToFirebase.  A rejection inside syncLedgerToFirebase
\* stays inside it; a rejected expense or category write ends the call with
\* false; the lastSync update is the last step.
syncAllToFirebase(st, rem, u, t, f) ==
    IF u = NoUser THEN Outcome(FALSE, FALSE, FALSE, st, rem)
    ELSE LET allLedgers == getAllLedgers(st, u, f).ret
             rem1 == SyncLedgers(rem, u, allLedgers, DOMAIN allLedgers, f)
             allExpenses == getExpenses(st, u, f)
             categories == getCategories(st, u, f)
             rem2 == [rem1 EXCEPT
                        !.expenses = [i \in DOMAIN @ \cup
                                            {allExpenses[k].id : k \in DOMAIN allExpenses} |->
                                        IF \E k \in DOMAIN allExpenses : allExpenses[k].id = i
                                        THEN CHOOSE e \in {allExpenses[k] : k \in DOMAIN allExpenses} :
                                                 e.id = i
                                        ELSE @[i]],
                        !.cats = [exists |-> TRUE, list |-> categories]]
             upd == updateBackupSettings(st, u, [lastSync |-> Time(t)], f)
         IN IF f.rest THEN Outcome(FALSE, FALSE, TRUE, st, rem1)
            ELSE Outcome(TRUE, FALSE, FALSE, upd.store, rem2)

\* storage.js deleteTransaction
deleteTransaction(st, rem, u, ledgerId, transactionId, t, f) ==
    LET allLedgers == getAllLedgers(st, u, f).ret IN
    IF ledgerId \notin DOMAIN allLedgers THEN Outcome(FALSE, FALSE, FALSE, st, rem)
    ELSE LET ledger == allLedgers[ledgerId]
             updatedTransactions == FilterOut(ledger.transactions, transactionId)
             updatedLedger == [ledger EXCEPT
                                 !.balance = DeleteBalance(updatedTransactions),
                                 !.transactions = updatedTransactions]
             st2 == [st EXCEPT ![getLedgersKey(u)] =
                         JSONstringify(Put(allLedgers, ledgerId, updatedLedger))]
             settings == getBackupSettings(st2, u, f)
         IN IF f.write THEN Outcome(FALSE, FALSE, TRUE, st, rem)
            ELSE IF u # NoUser /\ settings.autoBackup
            THEN LET bg == syncAllToFirebase(st2, rem, u, t, f)
                 IN Outcome(TRUE, FALSE, FALSE, bg.store, bg.remote)
            ELSE Outcome(TRUE, FALSE, FALSE, st2, rem)

\* deleteLedger deleting the transaction documents of the ledger as well
deleteLedger_Cascade(st, rem, u, ledgerId, f) ==
    LET allLedgers == Remove(getAllLedgers(st, u, f).ret, ledgerId)
        st2 == [st EXCEPT ![getLedgersKey(u)] = JSONstringify(allLedgers)]
        settings == getBackupSettings(st2, u, f)
    IN IF f.write THEN Outcome(FALSE, FALSE, TRUE, st, rem)
       ELSE IF u # NoUser /\ settings.autoBackup
       THEN IF f.remote THEN Outcome(FALSE, FALSE, TRUE, st2, rem)
            ELSE Outcome(TRUE, FALSE, FALSE, st2,
                         [rem EXCEPT !.ledgers = Remove(@, ledgerId),
                                     !.tx[ledgerId] = EmptyMap])
       ELSE Outcome(TRUE, FALSE, FALSE, st2, rem)

\* storage.js deleteLedger
deleteLedger(st, rem, u, ledgerId, f) ==
    LET allLedgers == Remove(getAllLedgers(st, u, f).ret, ledgerId)
        st2 == [st EXCEPT ![getLedgersKey(u)] = JSONstringify(allLedgers)]
        settings == getBackupSettings(st2, u, f)
    IN IF f.write THEN Outcome(FALSE, FALSE, TRUE, st, rem)
       ELSE IF u # NoUser /\ settings.autoBackup
       THEN IF f.remote THEN Outcome(FALSE, FALSE, TRUE, st2, rem)
            ELSE Outcome(TRUE, FALSE, FALSE, st2,
                         [rem EXCEPT !.ledgers = Remove(@, ledgerId)])
       ELSE Outcome(TRUE, FALSE, FALSE, st2, rem)

\* storage.js clearAllData: the ledger key of the identity and the guest
\* ledger key are removed; for a signed-in user every ledger document of the
\* cloud is deleted, and a failure there is logged and passed over.
clearAllData(st, rem, u, f) ==
    LET userKey == getLedgersKey(u)
        guestKey == "ledgers_guest"
        st2 == [st EXCEPT ![userKey] = Absent, ![guestKey] = Absent]
    IN IF f.write THEN Outcome(FALSE, FALSE, TRUE, st, rem)
       ELSE IF u # NoUser /\ ~f.remote
       THEN Outcome(TRUE, FALSE, FALSE, st2, [rem EXCEPT !.ledgers = EmptyMap])
       ELSE Outcome(TRUE, FALSE, FALSE, st2, rem)

\* --------------------------------------------------- expenses, categories
\* Array.prototype.filter on the ids of a list of expenses
WithoutExpense(list, id) ==
    LET F[i \in 0..Len(list)] ==
            IF i = 0 THEN <<>>
            ELSE IF list[i].id = id THEN F[i - 1] ELSE Append(F[i - 1], list[i])
    IN F[Len(list)]

\* storage.js saveExpense: the expense replaces the stored one of its id or
\* goes to the front of the list; with autoBackup its document is written.
saveExpense(st, rem, u, expense, f) ==
    LET allExpenses == getExpenses(st, u, f)
        updated == IF \E i \in DOMAIN allExpenses : allExpenses[i].id = expense.id
                   THEN [i \in DOMAIN allExpenses |->
                            IF allExpenses[i].id = expense.id THEN expense
                            ELSE allExpenses[i]]
                   ELSE <<expense>> \o allExpenses
        st2 == [st EXCEPT ![getExpensesKey(u)] = JSONstringify(updated)]
        settings == getBackupSettings(st2, u, f)
    IN IF f.write THEN Outcome(FALSE, FALSE, TRUE, st, rem)
       ELSE IF u # NoUser /\ settings.autoBackup
       THEN IF f.remote THEN Outcome(FALSE, FALSE, TRUE, st2, rem)
            ELSE Outcome(TRUE, FALSE, FALSE, st2,
                         [rem EXCEPT !.expenses = Put(@, expense.id, expense)])
       ELSE Outcome(TRUE, FALSE, FALSE, st2, rem)

\* storage.js deleteExpense
deleteExpense(st, rem, u, expenseId, f) ==
    LET updatedExpenses == WithoutExpense(getExpenses(st, u, f), expenseId)
        st2 == [st EXCEPT ![getExpensesKey(u)] = JSONstringify(updatedExpenses)]
        settings == getBackupSettings(st2, u, f)
    IN IF f.write THEN Outcome(FALSE, FALSE, TRUE, st, rem)
       ELSE IF u # NoUser /\ settings.autoBackup
       THEN IF f.remote THEN Outcome(FALSE, FALSE, TRUE, st2, rem)
            ELSE Outcome(TRUE, FALSE, FALSE, st2,
                         [rem EXCEPT !.expenses = Remove(@, expenseId)])
       ELSE Outcome(TRUE, FALSE, FALSE, st2, rem)

\* saveCategories writing the remote document whatever the setting
saveCategories_Always(st, rem, u, categories, f) ==
    LET st2 == [st EXCEPT ![getCategoriesKey(u)] = JSONstringify(categories)]
    IN IF f.write THEN Outcome(FALSE, FALSE, TRUE, st, rem)
       ELSE IF f.remote THEN Outcome(FALSE, FALSE, TRUE, st2, rem)
       ELSE Outcome(TRUE, FALSE, FALSE, st2,
                    [rem EXCEPT !.cats = [exists |-> TRUE, list |-> categories]])

\* storage.js saveCategories
saveCategories(st, rem, u, categories, f) ==
    LET st2 == [st EXCEPT ![getCategoriesKey(u)] = JSONstringify(categories)]
        settings == getBackupSettings(st2, u, f)
    IN IF f.write THEN Outcome(FALSE, FALSE, TRUE, st, rem)
       ELSE IF u # NoUser /\ settings.autoBackup
       THEN IF f.remote THEN Outcome(FALSE, FALSE, TRUE, st2, rem)
            ELSE Outcome(TRUE, FALSE, FALSE, st2,
                         [rem EXCEPT !.cats = [exists |-> TRUE, list |-> categories]])
       ELSE Outcome(TRUE, FALSE, FALSE, st2, rem)

\* The names typed into the category inputs, with String.prototype.trim and
\* String.prototype.toLowerCase on the strings of the model.
NewCatNames == {" ", "Gym", "gym ", "Yoga", "food"}

trim(s) ==
    CASE s = " " -> ""
      [] s = "gym " -> "gym"
      [] OTHER -> s

toLowerCase(s) ==
    CASE s = "Food" -> "food"
      [] s = "Travel" -> "travel"
      [] s = "Study" -> "study"
      [] s = "Rent" -> "rent"
      [] s = "Entertainment" -> "entertainment"
      [] s = "Health" -> "health"
      [] s = "Salary" -> "salary"
      [] s = "Other" -> "other"
      [] s = "Gym" -> "gym"
      [] s = "Yoga" -> "yoga"
      [] OTHER -> s

\* Array.prototype.filter(c => c.id !== catId)
WithoutCategory(list, catId) ==
    LET F[i \in 0..Len(list)] ==
            IF i = 0 THEN <<>>
            ELSE IF list[i] = catId THEN F[i - 1] ELSE Append(F[i - 1], list[i])
    IN F[Len(list)]

RECURSIVE DocsById(_, _)
\* The documents of a transactions subcollection in the order getDocs
\* returns them (by document id), each with its id (storage.js:257-263).
DocsById(docs, todo) ==
    IF todo = {} THEN <<>>
    ELSE LET i == CHOOSE i \in todo : \A j \in todo : i <= j
         IN <<[id |-> i, type |-> docs[i].type, amount |-> docs[i].amount,
               date |-> docs[i].date, balanceAfter |-> docs[i].balanceAfter]>>
            \o DocsById(docs, todo \ {i})

\* fetchFromFirebase merging what it read into the local collection
fetchFromFirebase_Merge(st, rem, u, f) ==
    IF u = NoUser THEN [ret |-> EmptyMap, threw |-> FALSE, fault |-> FALSE, store |-> st]
    ELSE LET local == getAllLedgers(st, u, f).ret
             allLedgers ==
                 [id \in DOMAIN rem.ledgers \cup DOMAIN local |->
                     IF id \in DOMAIN rem.ledgers
                     THEN [id |-> id, name |-> rem.ledgers[id].name,
                           balance |-> rem.ledgers[id].balance,
                           transactions |->
                               SortByDate(DocsById(rem.tx[id], DOMAIN rem.tx[id]))]
                     ELSE local[id]]
         IN IF f.remote \/ f.write
            THEN [ret |-> EmptyMap, threw |-> TRUE, fault |-> TRUE, store |-> st]
            ELSE [ret |-> allLedgers, threw |-> FALSE, fault |-> FALSE,
                  store |-> [st EXCEPT ![getLedgersKey(u)] = JSONstringify(allLedgers)]]

\* storage.js fetchFromFirebase: {} when signed out; a rejected read or a
\* rejected local write is rethrown to the caller (storage.js:280-283).
fetchFromFirebase(st, rem, u, f) ==
    IF u = NoUser THEN [ret |-> EmptyMap, threw |-> FALSE, fault |-> FALSE, store |-> st]
    ELSE LET allLedgers ==
                 [id \in DOMAIN rem.ledgers |->
                     [id |-> id, name |-> rem.ledgers[id].name,
                      balance |-> rem.ledgers[id].balance,
                      transactions |->
                          SortByDate(DocsById(rem.tx[id], DOMAIN rem.tx[id]))]]
         IN IF f.remote \/ f.write
            THEN [ret |-> EmptyMap, threw |-> TRUE, fault |-> TRUE, store |-> st]
            ELSE [ret |-> allLedgers, threw |-> FALSE, fault |-> FALSE,
                  store |-> [st EXCEPT ![getLedgersKey(u)] = JSONstringify(allLedgers)]]

\* ------------------------------------------------------------ backup file
\* The values of a parsed JSON text, tagged with what typeof and Array.isArray
\* tell about them.  An object is a map from its own keys to values.
JUndef == [t |-> "undefined"]
JNull == [t |-> "null"]
JNum(n) == [t |-> "number", v |-> n]
JStr(s) == [t |-> "string", v |-> s]
JArr(a) == [t |-> "array", v |-> a]
JObj(o) == [t |-> "object", v |-> o]

\* !!x
Truthy(x) ==
    CASE x.t \in {"undefined", "null"} -> FALSE
      [] x.t = "number" -> x.v # 0
      [] x.t = "string" -> x.v # ""
      [] OTHER -> TRUE

\* x.k throws a TypeError on null and undefined
AccessThrows(x) == x.t \in {"undefined", "null"}

\* x.k: undefined when x has no own key k
Get(x, k) == IF x.t = "object" /\ k \in DOMAIN x.v THEN x.v[k] ELSE JUndef

\* typeof x === 'object'
TypeofObject(x) == x.t \in {"object", "array", "null"}

\* the keys for (const k in x) visits
EntryKeys(x) == IF x.t \in {"object", "array"} THEN DOMAIN x.v ELSE {}

\* backup.js:185-208, the body of validateBackupFile's try block: "throw"
\* when an entry of ledgers is null (ledger.id on null), reported before a
\* false the loop would have returned for another entry, since the caller
\* turns both into false.
validateBody(data) ==
    IF AccessThrows(data) THEN "throw"
    ELSE LET ledgers == Get(data, "ledgers") IN
         IF ~Truthy(Get(data, "version")) \/ ~Truthy(ledgers) THEN "false"
         ELSE IF ~TypeofObject(ledgers) THEN "false"
         ELSE IF \E ledgerId \in EntryKeys(ledgers) : AccessThrows(ledgers.v[ledgerId])
         THEN "throw"
         ELSE IF \E ledgerId \in EntryKeys(ledgers) :
                    LET ledger == ledgers.v[ledgerId] IN
                    \/ ~Truthy(Get(ledger, "id"))
                    \/ ~Truthy(Get(ledger, "name"))
                    \/ Get(ledger, "balance").t # "number"
                    \/ /\ Truthy(Get(ledger, "transactions"))
                       /\ Get(ledger, "transactions").t # "array"
              THEN "false"
         ELSE "true"

\* backup.js validateBackupFile: whatever the body throws is caught and
\* turned into false.
validateBackupFile(data) ==
    [done |-> TRUE, ret |-> validateBody(data) = "true", threw |-> FALSE]

NotValidated == [done |-> FALSE, ret |-> FALSE, threw |-> FALSE]

\* The backup object exportDataToBackup builds from the stored collections
\* (backup.js:36-42); ledger ids are non-empty strings in the app and
\* positive numbers here, truthy either way.
EncodeLedger(l) ==
    JObj([id |-> JNum(l.id), name |-> JStr(l.name), balance |-> JNum(l.balance),
          transactions |-> JArr(l.transactions)])

EncodeLedgers(all) == JObj([id \in DOMAIN all |-> EncodeLedger(all[id])])

BackupData(all, expenses, categories, t) ==
    JObj([version |-> JStr("1.0"), exportDate |-> JNum(t),
          ledgers |-> EncodeLedgers(all),
          expenses |-> JArr(expenses), categories |-> JArr(categories)])

\* backup.js exportDataToBackup.  The ledgers come from getAllLedgers; the
\* expense and category blobs are read and parsed directly, so a rejected
\* read or an unparsable blob ends the export with success false, as does a
\* rejected file write.
exportDataToBackup(st, u, t, f) ==
    LET allLedgers == getAllLedgers(st, u, f).ret
        expensesJson == st[getExpensesKey(u)]
        categoriesJson == st[getCategoriesKey(u)]
        failed == \/ f.read
                  \/ expensesJson.kind = "corrupt"
                  \/ categoriesJson.kind = "corrupt"
                  \/ f.write
        expenses == IF expensesJson.kind = "json" THEN expensesJson.val ELSE <<>>
        categories == IF categoriesJson.kind = "json" THEN categoriesJson.val ELSE <<>>
    IN IF failed THEN [success |-> FALSE, file |-> Absent]
       ELSE [success |-> TRUE,
             file |-> JSONstringify(BackupData(allLedgers, expenses, categories, t))]

\* importDataFromBackup writing the ledgers of the file before it validates
importDataFromBackup_WriteFirst(st, file, f) ==
    LET parsed == JSONparse(file) IN
    IF f.read \/ parsed.threw THEN [success |-> FALSE, store |-> st]
    ELSE IF f.write THEN [success |-> FALSE, store |-> st]
    ELSE [success |-> validateBackupFile(parsed.val).ret,
          store |-> [st EXCEPT ![LEDGERS_KEY] =
                         JSONstringify(Get(parsed.val, "ledgers"))]]

\* backup.js importDataFromBackup (both the web and the native branch): read
\* the file, parse it, validate it, and only then write the ledgers of the
\* file under LEDGERS_KEY.
importDataFromBackup(st, file, f) ==
    LET parsed == JSONparse(file) IN
    IF f.read \/ parsed.threw THEN [success |-> FALSE, store |-> st]
    ELSE IF ~validateBackupFile(parsed.val).ret THEN [success |-> FALSE, store |-> st]
    ELSE IF f.write THEN [success |-> FALSE, store |-> st]
    ELSE [success |-> TRUE,
          store |-> [st EXCEPT ![LEDGERS_KEY] =
                         JSONstringify(Get(parsed.val, "ledgers"))]]

\* A setDoc of a run of syncAllToFirebase is rejected: one of a ledger that
\* has more documents than the writes that go through, or the write of an
\* expense or of the category list.
RemoteWriteFails(st, u, f) ==
    /\ u # NoUser
    /\ \/ f.rest
       \/ /\ f.remote
          /\ \E id \in DOMAIN getAllLedgers(st, u, f).ret :
                 f.after <= Len(getAllLedgers(st, u, f).ret[id].transactions)

\* ------------------------------------------------------------------ state
NoOp ==
    [api |-> "none", ok |-> TRUE, threw |-> FALSE, fault |-> FALSE,
     arg |-> NoLedger, id |-> 0, ret |-> EmptyMap, file |-> Absent,
     exported |-> FALSE, wfail |-> FALSE, edited |-> 0]

Op(api, out, arg, id, ret) ==
    [api |-> api, ok |-> out.ok, threw |-> out.threw, fault |-> out.fault,
     arg |-> arg, id |-> id, ret |-> ret, file |-> Absent, exported |-> FALSE,
     wfail |-> FALSE, edited |-> 0]

\* No saveLedger call is between its read and its write.
NoCalls ==
    [calls |-> <<>>, returned |-> {}, settings |-> <<>>, sync |-> "idle",
     wanted |-> "none"]

\* editingCatId of CategoryManager when no row is being renamed (null)
NoCategory == "<null>"

\* HomeScreen as mounted and loaded: useState(false) for syncing, no loadData
\* call awaiting its reads, no handleAutoSync, handleBackupNow or
\* handleImportBackup between its setSyncing(true) and setSyncing(false),
\* the categories getCategories gave, no row of its CategoryManager in edit.
IdleHome ==
    [syncing |-> FALSE, loads |-> {}, auto |-> 0, backup |-> 0, fetch |-> 0,
     step |-> "none", seen |-> FALSE, origin |-> "none",
     categories |-> DefaultCategories, editingCatId |-> NoCategory]

EmptyRemote ==
    [ledgers |-> EmptyMap, tx |-> [i \in Ids |-> EmptyMap],
     expenses |-> EmptyMap, cats |-> [exists |-> FALSE, list |-> <<>>]]

\* App with the main stack shown: the listener has delivered the signed-in
\* user, checkPINStatus has found no PIN lock, nothing is awaited.
ShownApp ==
    [user |-> TRUE, isAuthenticated |-> TRUE, pinRequired |-> FALSE,
     loading |-> FALSE, events |-> <<>>, checks |-> 0, timer |-> FALSE,
     pinEnabled |-> FALSE, verified |-> FALSE]

\* The screens are shown to a signed-in user only (App.js:232-238).  Nothing
\* is stored yet, except that the ledger blob of the identity may hold text
\* that does not parse.  The clock stands at an instant later than the
\* cooldown after the epoch, as every Date.now() is.
Init ==
    /\ user \in Users
    /\ \E blob \in {Absent, Corrupt} :
           storage = [k \in Keys |-> IF k = getLedgersKey(user) THEN blob ELSE Absent]
    /\ remote = EmptyRemote
    /\ viewLedger = NoLedger
    /\ idCounter = 0
    /\ now = SYNC_COOLDOWN_MS + 1
    /\ backupFile = Absent
    /\ lastOp = NoOp
    /\ deleted = {}
    /\ vInput = JUndef
    /\ vResult = NotValidated
    /\ home = IdleHome
    /\ pending = NoCalls
    /\ profile = [categories |-> DefaultCategories]
    /\ app = ShownApp

\* The effect of an operation's outcome on the stores.
Apply(out) ==
    /\ storage' = out.store
    /\ remote' = out.remote

\* ------------------------------------------------------------------ screens
\* viewLedger is NoLedger on the home screen; on the ledger screens it is the
\* ledger object they were opened with (route.params.ledger).

\* LedgerDetailScreen.fetchInitialData (run on every focus): the screen takes
\* the stored ledger when getAllLedgers has one under its id.
Refetched(st, u, ledger, f) ==
    LET allLedgers == getAllLedgers(st, u, f).ret
    IN IF ledger.id \in DOMAIN allLedgers THEN allLedgers[ledger.id] ELSE ledger

\* The test of HomeScreen.loadData (part_005:1055-1058) on the settings it
\* has just read and the syncing of its closure: autoBackup, no sync flagged,
\* and a last sync (the epoch when null) older than the cooldown.
autoSyncDue_NoCooldown(st, u, t, syncing, f) ==
    LET backupData == getBackupSettings(st, u, f)
    IN backupData.autoBackup /\ ~syncing

autoSyncDue(st, u, t, syncing, f) ==
    LET backupData == getBackupSettings(st, u, f)
        lastSyncTime == IF backupData.lastSync.isNull THEN 0 ELSE backupData.lastSync.t
    IN /\ backupData.autoBackup /\ ~syncing
       /\ t - lastSyncTime > SYNC_COOLDOWN_MS

\* HomeScreen.loadData, run on every focus of the home screen and after its
\* own mutations: four reads for the lists it shows, then handleAutoSync
\* (not awaited) when autoSyncDue.  Here no sync of the screen is in flight
\* when the handler starts, and handleAutoSync runs to its end.
loadData(st, rem, u, t, f) ==
    IF autoSyncDue(st, u, t, FALSE, f)
    THEN LET bg == syncAllToFirebase(st, rem, u, t, f)
         IN Outcome(TRUE, FALSE, FALSE, bg.store, bg.remote)
    ELSE Outcome(TRUE, FALSE, FALSE, st, rem)

\* HomeScreen.handleAddLedger: saveLedger, then loadData
handleAddLedger(names, FS, cap) ==
    \E name \in names \cup {""}, f \in FS :
        /\ viewLedger = NoLedger
        /\ IF name = ""
           THEN /\ lastOp' = NoOp
                /\ UNCHANGED <<app, storage, remote, idCounter, deleted>>
           ELSE /\ idCounter < cap
                /\ LET newLedger == [id |-> idCounter + 1, name |-> name, balance |-> 0,
                                     transactions |-> <<>>]
                       out == saveLedger(storage, remote, user, newLedger, f)
                   IN /\ Apply(loadData(out.store, out.remote, user, now, NoFault))
                      /\ lastOp' = Op("save", out, newLedger, newLedger.id, EmptyMap)
                      /\ deleted' = IF out.ok THEN deleted \ {newLedger.id} ELSE deleted
                /\ idCounter' = idCounter + 1
        /\ home' = IF name = "" THEN home
                   ELSE [home EXCEPT !.categories = getCategories(storage', user, NoFault)]
        /\ UNCHANGED <<app, user, viewLedger, now, pending, profile, backupFile, vInput, vResult>>

\* A tap on a ledger of the home list (HomeScreen state, loaded by loadData),
\* then LedgerDetailScreen.fetchInitialData.
openLedger(FS) ==
    \E id \in DOMAIN Ledgers, f \in {g \in FS : ~g.write /\ ~g.sread /\ ~g.remote /\ ~g.rest} :
        /\ viewLedger = NoLedger
        /\ viewLedger' = Refetched(storage, user, Ledgers[id], f)
        /\ lastOp' = [NoOp EXCEPT !.api = "getAll", !.fault = f.read,
                                  !.threw = getAllLedgers(storage, user, f).threw,
                                  !.ret = getAllLedgers(storage, user, f).ret]
        /\ UNCHANGED <<app, user, storage, remote, idCounter, now, home, pending, profile, backupFile, deleted,
                       vInput, vResult>>

\* navigation.goBack() from the ledger screen to the home screen, whose
\* focus runs loadData
goBack ==
    /\ viewLedger # NoLedger
    /\ viewLedger' = NoLedger
    /\ Apply(loadData(storage, remote, user, now, NoFault))
    /\ lastOp' = NoOp
    /\ home' = [home EXCEPT !.categories = getCategories(storage', user, NoFault)]
    /\ UNCHANGED <<app, user, idCounter, now, pending, profile, backupFile, deleted, vInput, vResult>>

\* The home screen shown again after the profile or another tab
focusHome(FS) ==
    \E f \in FS :
        /\ viewLedger = NoLedger
        /\ Apply(loadData(storage, remote, user, now, f))
        /\ lastOp' = [NoOp EXCEPT !.api = "getAll", !.fault = f.read,
                                  !.threw = getAllLedgers(storage, user, f).threw,
                                  !.ret = getAllLedgers(storage, user, f).ret]
        /\ home' = [home EXCEPT !.categories = getCategories(storage', user, f)]
        /\ UNCHANGED <<app, user, viewLedger, idCounter, now, pending, profile, backupFile, deleted,
                       vInput, vResult>>

\* JavaScript numbers: the integers up to MaxFinite in size stand for the
\* finite doubles (Number.MAX_VALUE scaled down), Infinity for the value a
\* result beyond them takes.
MaxFinite == 9

Infinity == 2 * MaxFinite + 1

isFinite(n) == -MaxFinite <= n /\ n <= MaxFinite

\* What the keypad of AddTransactionScreen can leave in the amount field: a
\* number, a difference, a quotient, a number below half a cent, and a
\* number followed by an operator ("5+"). Huge is a run of digits longer
\* than a double can hold.
Huge == MaxFinite + 1

Exprs ==
    {[kind |-> "num", a |-> 0, b |-> 0], [kind |-> "num", a |-> 1, b |-> 0],
     [kind |-> "num", a |-> Huge, b |-> 0], [kind |-> "tiny", a |-> 0, b |-> 0],
     [kind |-> "sub", a |-> 0, b |-> 1], [kind |-> "sub", a |-> 1, b |-> 1],
     [kind |-> "div", a |-> 1, b |-> 0], [kind |-> "div", a |-> 1, b |-> 1],
     [kind |-> "dangling", a |-> 1, b |-> 0], [kind |-> "dangling", a |-> Huge, b |-> 0]}

\* parseFloat of a run of digits.
parseFloat(digits) == IF digits > MaxFinite THEN Infinity ELSE digits

\* utils.evaluateMathExpression: the cleaned text is evaluated; a result
\* that is not finite is 0 and a finite one is rounded to two decimals; when
\* the evaluation throws (a dangling operator), the result is parseFloat of
\* the text, 0 when that is NaN.
evaluateMathExpression(expr) ==
    LET threw == expr.kind = "dangling"
        result == IF expr.kind = "sub" THEN parseFloat(expr.a) - parseFloat(expr.b)
                  ELSE IF expr.kind = "div"
                       THEN IF parseFloat(expr.b) = 0 THEN Infinity
                            ELSE parseFloat(expr.a) \div parseFloat(expr.b)
                       ELSE IF expr.kind = "tiny" THEN 0 ELSE parseFloat(expr.a)
        singleNum == parseFloat(expr.a)
    IN IF ~threw
       THEN IF isFinite(result) THEN result ELSE 0
       ELSE singleNum

TypedAmounts == {evaluateMathExpression(e) : e \in Exprs}

\* The numbers of a ledger as JSON.stringify writes them in saveLedger: a
\* number that is not finite is written null, which every later sum and
\* comparison takes for 0 (written 0 here).
JSONnumber(n) == IF isFinite(n) THEN n ELSE 0

JSONnumbers(ledger) ==
    [ledger EXCEPT
        !.balance = JSONnumber(ledger.balance),
        !.transactions = [k \in DOMAIN ledger.transactions |->
            [ledger.transactions[k] EXCEPT
                !.amount = JSONnumber(ledger.transactions[k].amount),
                !.balanceAfter = JSONnumber(ledger.transactions[k].balanceAfter)]]]

\* handleConfirm appending the entered transaction also when it edits one
Confirm_AlwaysAppend(ledger, editing, tx, type, numAmount, date, newId) ==
    LET transactionData == Tx(IF editing THEN tx.id ELSE newId, type, numAmount, date)
        recalculated == RunningBalances(SortByDate(Append(ledger.transactions, transactionData)), 0)
    IN [ledger EXCEPT !.balance = recalculated[Len(recalculated)].balanceAfter,
                      !.transactions = recalculated]

\* AddTransactionScreen.handleConfirm on the ledger the screen holds, for a
\* new transaction (editing = FALSE) or for the edited transaction tx.
Confirm(ledger, editing, tx, type, numAmount, date, newId) ==
    LET transactionData == Tx(IF editing THEN tx.id ELSE newId, type, numAmount, date)
        updatedTransactions ==
            IF editing
            THEN [k \in DOMAIN ledger.transactions |->
                     IF ledger.transactions[k].id = tx.id THEN transactionData
                     ELSE ledger.transactions[k]]
            ELSE Append(ledger.transactions, transactionData)
        recalculated == RunningBalances(SortByDate(updatedTransactions), 0)
        newBalance == IF recalculated = <<>> THEN 0
                      ELSE recalculated[Len(recalculated)].balanceAfter
    IN [ledger EXCEPT !.balance = newBalance, !.transactions = recalculated]

\* handleConfirm for a new transaction; on success the screen goes back to
\* the ledger screen, which refetches.
handleConfirmAdd(amounts, dates, FS, cap) ==
    \E type \in {"credit", "debit"}, numAmount \in amounts, date \in dates,
       f \in FS :
        /\ viewLedger # NoLedger
        /\ IF numAmount <= 0
           THEN /\ lastOp' = NoOp
                /\ UNCHANGED <<app, storage, remote, idCounter, deleted, viewLedger>>
           ELSE /\ idCounter < cap
                /\ LET updatedLedger == Confirm(viewLedger, FALSE, NoLedger, type,
                                                numAmount, date, idCounter + 1)
                       out == saveLedger(storage, remote, user, JSONnumbers(updatedLedger), f)
                   IN /\ Apply(out)
                      /\ lastOp' = Op("save", out, updatedLedger, updatedLedger.id, EmptyMap)
                      /\ deleted' = IF out.ok THEN deleted \ {updatedLedger.id} ELSE deleted
                      /\ viewLedger' = IF out.ok
                                       THEN Refetched(out.store, user, viewLedger, NoFault)
                                       ELSE viewLedger
                /\ idCounter' = idCounter + 1
        /\ UNCHANGED <<app, user, now, home, pending, profile, backupFile, vInput, vResult>>

\* TransactionDetailScreen.confirmEdit, then handleConfirm: the type is the
\* transaction's own, the amount and the date are entered anew.
handleConfirmEdit(amounts, dates, FS) ==
    \E k \in DOMAIN viewLedger.transactions, numAmount \in amounts, date \in dates,
       f \in FS :
        /\ IF numAmount <= 0
           THEN /\ lastOp' = NoOp
                /\ UNCHANGED <<app, storage, remote, deleted, viewLedger>>
           ELSE LET tx == viewLedger.transactions[k]
                    updatedLedger == Confirm(viewLedger, TRUE, tx, tx.type,
                                             numAmount, date, 0)
                    out == saveLedger(storage, remote, user, JSONnumbers(updatedLedger), f)
                IN /\ Apply(out)
                   /\ lastOp' = [Op("save", out, updatedLedger, updatedLedger.id, EmptyMap)
                                    EXCEPT !.edited = tx.id]
                   /\ deleted' = IF out.ok THEN deleted \ {updatedLedger.id} ELSE deleted
                   /\ viewLedger' = IF out.ok
                                    THEN Refetched(out.store, user, updatedLedger, NoFault)
                                    ELSE viewLedger
        /\ UNCHANGED <<app, user, idCounter, now, home, pending, profile, backupFile, vInput, vResult>>

\* TransactionDetailScreen.confirmDelete; on success back to the ledger
\* screen, which refetches.  With record, the id of a transaction deleted
\* with a resync is kept in deleted.
confirmDeleteRecorded(FS, record) ==
    \E k \in DOMAIN viewLedger.transactions, f \in FS :
        LET out == deleteTransaction(storage, remote, user, viewLedger.id,
                                     viewLedger.transactions[k].id, now, f)
        IN /\ Apply(out)
           /\ lastOp' = Op("deleteTransaction", out, NoLedger, viewLedger.id, EmptyMap)
           /\ viewLedger' = IF out.ok
                            THEN Refetched(out.store, user, viewLedger, NoFault)
                            ELSE viewLedger
           /\ deleted' = IF record /\ out.ok /\ user # NoUser
                               /\ getBackupSettings(out.store, user, NoFault).autoBackup
                          THEN deleted \cup {viewLedger.transactions[k].id}
                          ELSE deleted
           /\ UNCHANGED <<app, user, idCounter, now, home, pending, profile, backupFile, vInput, vResult>>

confirmDelete(FS) == confirmDeleteRecorded(FS, FALSE)

\* HomeScreen.confirmLedgerDelete (any ledger of the list) and
\* CustomerProfileScreen.handleDelete (the ledger of the screen); on success
\* the home screen is shown and runs loadData.
confirmLedgerDelete(FS) ==
    \E id \in IF viewLedger = NoLedger THEN DOMAIN Ledgers ELSE {viewLedger.id},
       f \in FS :
        LET out == deleteLedger(storage, remote, user, id, f)
        IN /\ Apply(IF out.ok THEN loadData(out.store, out.remote, user, now, NoFault)
                    ELSE out)
           /\ lastOp' = Op("deleteLedger", out, NoLedger, id, EmptyMap)
           /\ deleted' = IF out.ok THEN deleted \cup {id} ELSE deleted
           /\ viewLedger' = IF out.ok THEN NoLedger ELSE viewLedger
           /\ home' = IF out.ok
                      THEN [home EXCEPT !.categories = getCategories(storage', user, NoFault)]
                      ELSE home
           /\ UNCHANGED <<app, user, idCounter, now, pending, profile, backupFile, vInput, vResult>>

\* InsightsScreen.processData: a screen that only reads the collection
processData(FS) ==
    \E f \in {g \in FS : ~g.write /\ ~g.sread /\ ~g.remote /\ ~g.rest} :
        LET r == getAllLedgers(storage, user, f) IN
        /\ viewLedger = NoLedger
        /\ lastOp' = [NoOp EXCEPT !.api = "getAll", !.fault = f.read,
                                  !.threw = r.threw, !.ret = r.ret]
        /\ UNCHANGED <<app, user, storage, remote, viewLedger, idCounter, now, home, pending, profile,
                       backupFile, deleted, vInput, vResult>>

\* UserProfileScreen.handleToggleBackup: the setting, then a first sync
\* (handleSyncNow) when it was switched on.
handleToggleBackup(FS) ==
    \E value \in BOOLEAN, f \in FS :
        /\ viewLedger = NoLedger
        /\ LET upd == updateBackupSettings(storage, user, [autoBackup |-> value], f)
            out == IF value THEN syncAllToFirebase(upd.store, remote, user, now, f)
                   ELSE Outcome(upd.ok, FALSE, ~upd.ok, upd.store, remote)
           IN /\ Apply(out)
              /\ lastOp' = IF value
                           THEN [Op("syncAll", out, NoLedger, 0, EmptyMap) EXCEPT
                                    !.wfail = RemoteWriteFails(upd.store, user, f)]
                           ELSE Op("settings", out, NoLedger, 0, EmptyMap)
        /\ UNCHANGED <<app, user, viewLedger, idCounter, now, home, pending, profile, backupFile, deleted,
                       vInput, vResult>>

\* HomeScreen.handleImportBackup and onRefresh: the pull from the cloud
handleImportBackup(FS) ==
    \E f \in {g \in FS : ~g.read /\ ~g.sread /\ ~g.rest} :
        LET out == fetchFromFirebase(storage, remote, user, f)
        IN /\ viewLedger = NoLedger
           /\ storage' = out.store
           /\ lastOp' = [NoOp EXCEPT !.api = "fetch", !.ok = ~out.threw,
                                     !.threw = out.threw, !.fault = out.fault,
                                     !.ret = out.ret]
           /\ UNCHANGED <<app, user, remote, viewLedger, idCounter, now, home, pending, profile, backupFile,
                          deleted, vInput, vResult>>

\* UserProfileScreen.handleSyncNow: push everything, whatever the setting
handleSyncNow(FS) ==
    \E f \in FS :
        LET out == syncAllToFirebase(storage, remote, user, now, f)
        IN /\ viewLedger = NoLedger
           /\ Apply(out)
           /\ lastOp' = [Op("syncAll", out, NoLedger, 0, EmptyMap) EXCEPT
                            !.wfail = RemoteWriteFails(storage, user, f)]
           /\ UNCHANGED <<app, user, viewLedger, idCounter, now, home, pending, profile, backupFile, deleted,
                          vInput, vResult>>

\* HomeScreen.handleBackupNow: the cloud sync, then the backup file, which
\* is kept when the export succeeded.  One backup file is made in a
\* behaviour.
handleBackupNow(FS) ==
    \E f \in FS :
        LET out == syncAllToFirebase(storage, remote, user, now, f)
            localResult == exportDataToBackup(out.store, user, now, f)
        IN /\ viewLedger = NoLedger
           /\ backupFile = Absent
           /\ Apply(out)
           /\ backupFile' = IF localResult.success THEN localResult.file ELSE backupFile
           /\ lastOp' = [NoOp EXCEPT !.api = "export", !.ok = localResult.success,
                                     !.fault = f.read \/ f.write,
                                     !.file = localResult.file]
           /\ UNCHANGED <<app, user, viewLedger, idCounter, now, home, pending, profile, deleted, vInput, vResult>>

\* Files a user can pick that are not a backup of this app: text that is
\* not JSON, and JSON texts that lack a part of a backup.
BadFiles ==
    <<Corrupt,
      JSONstringify(JObj([version |-> JStr("1.0")])),
      JSONstringify(JObj([ledgers |-> JObj(EmptyMap)])),
      JSONstringify(JObj([version |-> JStr("1.0"), ledgers |-> JStr("none")])),
      JSONstringify(JObj([version |-> JStr("1.0"),
                          ledgers |-> JObj([k \in {1} |->
                              JObj([id |-> JNum(1), balance |-> JNum(0)])])])),
      JSONstringify(JObj([version |-> JStr("1.0"),
                          ledgers |-> JObj([k \in {1} |->
                              JObj([id |-> JNum(1), name |-> JStr("Asha"),
                                    balance |-> JStr("0")])])]))>>

\* backup.js importDataFromBackup on a picked file: the last exported one
\* (pick 0) or one of the others.
importBackup(files, FS) ==
    \E pick \in {0} \cup DOMAIN files, f \in FS :
        LET file == IF pick = 0 THEN backupFile ELSE files[pick]
            r == importDataFromBackup(storage, file, f)
        IN /\ viewLedger = NoLedger
           /\ pick = 0 => backupFile # Absent
           /\ storage' = r.store
           /\ lastOp' = [NoOp EXCEPT !.api = "import", !.ok = r.success,
                                     !.fault = f.read \/ f.write, !.file = file,
                                     !.exported = (pick = 0)]
           /\ UNCHANGED <<app, user, remote, viewLedger, idCounter, now, home, pending, profile, backupFile,
                          deleted, vInput, vResult>>

\* UserProfileScreen.confirmResetData: clearAllData, then the home screen,
\* which runs loadData.
confirmResetData(FS) ==
    \E f \in FS :
        LET out == clearAllData(storage, remote, user, f)
        IN /\ viewLedger = NoLedger
           /\ Apply(IF out.ok THEN loadData(out.store, out.remote, user, now, NoFault)
                    ELSE out)
           /\ lastOp' = Op("clearAllData", out, NoLedger, 0, EmptyMap)
           /\ home' = IF out.ok
                      THEN [home EXCEPT !.categories = getCategories(storage', user, NoFault)]
                      ELSE home
           /\ UNCHANGED <<app, user, viewLedger, idCounter, now, pending, profile, backupFile,
                          deleted, vInput, vResult>>

\* The ledger store driven by the transaction screens, local calls only.
Next ==
    \/ handleAddLedger(Names, StoreFaults, MaxIds)
    \/ openLedger(StoreFaults)
    \/ goBack
    \/ processData(StoreFaults)
    \/ handleConfirmAdd(Amounts, Dates, StoreFaults, MaxIds)
    \/ handleConfirmEdit(Amounts, Dates, StoreFaults)
    \/ confirmDelete(StoreFaults)
    \/ confirmLedgerDelete(StoreFaults)

Spec == Init /\ [][Next]_vars

\* UserProfileScreen.handleLogout: signOut(auth).  The screens stay mounted
\* until the auth listener of App has rendered the sign-in stack
\* (App.js:148-158), so their handlers can still run with nobody signed in.
handleLogout ==
    /\ user # NoUser
    /\ viewLedger = NoLedger
    /\ user' = NoUser
    /\ lastOp' = NoOp
    /\ UNCHANGED <<app, storage, remote, viewLedger, idCounter, now, home, pending, profile, backupFile,
                   deleted, vInput, vResult>>

\* LoginScreen.handleLogin: signInWithEmailAndPassword succeeded
handleLogin ==
    /\ user = NoUser
    /\ viewLedger = NoLedger
    /\ user' \in Users
    /\ lastOp' = NoOp
    /\ UNCHANGED <<app, storage, remote, viewLedger, idCounter, now, home, pending, profile, backupFile,
                   deleted, vInput, vResult>>

\* The backup file: ledgers come and go between an export and an import.
NextBackup ==
    \/ handleAddLedger({"Asha"}, {NoFault}, MaxIds)
    \/ openLedger({NoFault})
    \/ goBack
    \/ handleConfirmAdd(Amounts, {1}, {NoFault}, MaxIds)
    \/ confirmLedgerDelete({NoFault})
    \/ handleBackupNow(StoreFaults)
    \/ importBackup(BadFiles, StoreFaults)

SpecBackup == Init /\ [][NextBackup]_vars

\* The store together with the cloud copy, every call of an operation able
\* to fail.
NextSync ==
    \/ handleAddLedger({"Asha"}, {NoFault}, MaxSyncIds)
    \/ openLedger({NoFault})
    \/ goBack
    \/ processData(StoreFaults)
    \/ handleConfirmAdd(Amounts, {1}, AllFaults, MaxSyncIds)
    \/ confirmDelete(AllFaults)
    \/ confirmLedgerDelete(AllFaults)
    \/ handleToggleBackup({NoFault, [NoFault EXCEPT !.rest = TRUE]})
    \/ handleSyncNow(AllFaults)
    \/ focusHome({NoFault})
    \/ handleImportBackup(AllFaults)

SpecSync == Init /\ [][NextSync]_vars

\* Signing out and in around the sync handlers.
NextAuth ==
    \/ handleLogout
    \/ handleLogin
    \/ handleAddLedger({"Asha"}, {NoFault}, MaxSyncIds)
    \/ confirmLedgerDelete({NoFault})
    \/ handleToggleBackup({NoFault})
    \/ handleSyncNow(AllFaults)
    \/ focusHome({NoFault})

SpecAuth == Init /\ [][NextAuth]_vars

\* The pull from the cloud, with transactions entered out of date order.
NextFetch ==
    \/ handleAddLedger({"Asha"}, {NoFault}, MaxIds)
    \/ openLedger({NoFault})
    \/ goBack
    \/ handleConfirmAdd({1}, Dates, {NoFault}, MaxIds)
    \/ confirmLedgerDelete({NoFault})
    \/ handleSyncNow({NoFault})
    \/ handleImportBackup(AllFaults)

SpecFetch == Init /\ [][NextFetch]_vars

\* ------------------------------------------------ HomeScreen, step by step
\* The asynchronous handlers of HomeScreen with their awaits as separate
\* steps.  home.loads holds, for each loadData call that awaits its reads,
\* the syncing of the render that made it (useCallback, [syncing]) and what
\* ran it: a focus of the screen, or the setSyncing of a sync;
\* home.auto, home.backup and home.fetch count the handleAutoSync,
\* handleBackupNow and handleImportBackup calls between their
\* setSyncing(true) and their setSyncing(false).
MaxInFlight == 2
MaxNow == 12

InFlight(h) == h.auto + h.backup + h.fetch

\* setSyncing(v).  A changed syncing gives loadData a new identity, so the
\* focus effect (part_005:1066-1070) runs the new loadData.
\* why tells what made the call: a sync that started, ended or failed.
setSyncing(h, v, why) ==
    IF h.syncing = v THEN h
    ELSE [h EXCEPT !.syncing = v, !.loads = @ \cup {[seen |-> v, origin |-> why]}]

\* Time passes: just the cooldown, or a minute more than the cooldown.
Tick ==
    /\ \E d \in {SYNC_COOLDOWN_MS, SYNC_COOLDOWN_MS + 1} :
           /\ now + d <= MaxNow
           /\ now' = now + d
    /\ lastOp' = NoOp
    /\ home' = [home EXCEPT !.step = "none", !.seen = FALSE, !.origin = "none"]
    /\ UNCHANGED <<app, user, storage, remote, viewLedger, idCounter, backupFile, deleted,
                   vInput, vResult, pending, profile>>

\* The home screen gains focus: loadData starts and awaits its four reads.
homeFocus ==
    /\ viewLedger = NoLedger
    /\ home' = [home EXCEPT !.loads = @ \cup {[seen |-> home.syncing, origin |-> "focus"]},
                         !.step = "focus", !.seen = FALSE, !.origin = "none"]
    /\ lastOp' = NoOp
    /\ UNCHANGED <<app, user, storage, remote, viewLedger, idCounter, now, backupFile,
                   deleted, vInput, vResult, pending, profile>>

\* loadData after its reads (part_005:1048-1063): handleAutoSync up to its
\* first await when autoSyncDue.
loadDataResumes ==
    \E load \in home.loads :
        LET due == autoSyncDue(storage, user, now, load.seen, NoFault)
            h == [home EXCEPT !.loads = @ \ {load}, !.step = "loadData",
                              !.seen = load.seen, !.origin = load.origin,
                              !.categories = getCategories(storage, user, NoFault)]
        IN /\ due => InFlight(home) < MaxInFlight
           /\ home' = IF due THEN setSyncing([h EXCEPT !.auto = @ + 1], TRUE, "started") ELSE h
           /\ lastOp' = NoOp
           /\ UNCHANGED <<app, user, storage, remote, viewLedger, idCounter, now, backupFile,
                          deleted, vInput, vResult, pending, profile>>

\* handleAutoSync from the end of syncAllToFirebase (part_005:1074-1077)
handleAutoSyncResumes(FS) ==
    \E f \in FS :
        LET out == syncAllToFirebase(storage, remote, user, now, f)
        IN /\ home.auto > 0
           /\ Apply(out)
           /\ home' = setSyncing([home EXCEPT !.auto = @ - 1, !.step = "autoSync", !.seen = FALSE, !.origin = "none"], FALSE,
                                 IF out.ok THEN "ended" ELSE "failed")
           /\ lastOp' = [Op("syncAll", out, NoLedger, 0, EmptyMap) EXCEPT
                            !.wfail = RemoteWriteFails(storage, user, f)]
           /\ UNCHANGED <<app, user, viewLedger, idCounter, now, backupFile, deleted,
                          vInput, vResult, pending, profile>>

\* A tap on Backup: handleBackupNow up to its first await (part_005:1081-1085)
handleBackupNowStarts ==
    /\ viewLedger = NoLedger
    /\ ~home.syncing => InFlight(home) < MaxInFlight
    /\ home' = IF home.syncing THEN [home EXCEPT !.step = "backupNow", !.seen = FALSE, !.origin = "none"]
                ELSE setSyncing([home EXCEPT !.backup = @ + 1, !.step = "backupNow", !.seen = FALSE, !.origin = "none"], TRUE,
                                "started")
    /\ lastOp' = NoOp
    /\ UNCHANGED <<app, user, storage, remote, viewLedger, idCounter, now, backupFile,
                   deleted, vInput, vResult, pending, profile>>

\* handleBackupNow from the end of syncAllToFirebase (part_005:1085-1090)
handleBackupNowResumes(FS) ==
    \E f \in FS :
        LET out == syncAllToFirebase(storage, remote, user, now, f)
            localResult == exportDataToBackup(out.store, user, now, f)
        IN /\ home.backup > 0
           /\ Apply(out)
           /\ backupFile' = IF localResult.success THEN localResult.file ELSE backupFile
           /\ home' = setSyncing([home EXCEPT !.backup = @ - 1, !.step = "backupDone", !.seen = FALSE, !.origin = "none"], FALSE,
                                 IF out.ok THEN "ended" ELSE "failed")
           /\ lastOp' = [NoOp EXCEPT !.api = "export", !.ok = localResult.success,
                                     !.fault = f.read \/ f.write,
                                     !.file = localResult.file]
           /\ UNCHANGED <<app, user, viewLedger, idCounter, now, deleted, vInput, vResult,
                          pending, profile>>

\* A tap on Restore, confirmed: handleImportBackup up to its await
\* (part_005:1107-1115)
handleImportBackupStarts ==
    /\ viewLedger = NoLedger
    /\ ~home.syncing => InFlight(home) < MaxInFlight
    /\ home' = IF home.syncing THEN [home EXCEPT !.step = "import", !.seen = FALSE, !.origin = "none"]
                ELSE setSyncing([home EXCEPT !.fetch = @ + 1, !.step = "import", !.seen = FALSE, !.origin = "none"], TRUE,
                                "started")
    /\ lastOp' = NoOp
    /\ UNCHANGED <<app, user, storage, remote, viewLedger, idCounter, now, backupFile,
                   deleted, vInput, vResult, pending, profile>>

\* handleImportBackup from the end of fetchFromFirebase (part_005:1115-1129)
handleImportBackupResumes(FS) ==
    \E f \in {g \in FS : ~g.read /\ ~g.sread /\ ~g.rest} :
        LET out == fetchFromFirebase(storage, remote, user, f)
        IN /\ home.fetch > 0
           /\ storage' = out.store
           /\ home' = setSyncing([home EXCEPT !.fetch = @ - 1, !.step = "importDone", !.seen = FALSE, !.origin = "none"], FALSE,
                                 IF out.threw THEN "failed" ELSE "ended")
           /\ lastOp' = [NoOp EXCEPT !.api = "fetch", !.ok = ~out.threw,
                                     !.threw = out.threw, !.fault = out.fault,
                                     !.ret = out.ret]
           /\ UNCHANGED <<app, user, remote, viewLedger, idCounter, now, backupFile,
                          deleted, vInput, vResult, pending, profile>>

\* The home screen with the clock running and the backup switch of the
\* profile screen.
NextHome ==
    \/ Tick
    \/ homeFocus
    \/ loadDataResumes
    \/ handleAutoSyncResumes({NoFault, [NoFault EXCEPT !.rest = TRUE]})
    \/ handleBackupNowStarts
    \/ handleBackupNowResumes({NoFault})
    \/ handleImportBackupStarts
    \/ handleImportBackupResumes({NoFault})
    \/ handleToggleBackup({NoFault})

SpecHome == Init /\ [][NextHome]_vars

\* The home screen with remote calls that can be rejected.  Every awaited
\* call settles, so a handler that awaits one runs again.
NextSettle ==
    \/ homeFocus
    \/ loadDataResumes
    \/ handleAutoSyncResumes({NoFault, [NoFault EXCEPT !.rest = TRUE]})
    \/ handleBackupNowStarts
    \/ handleBackupNowResumes({NoFault, [NoFault EXCEPT !.rest = TRUE]})
    \/ handleImportBackupStarts
    \/ handleImportBackupResumes({NoFault, [NoFault EXCEPT !.remote = TRUE]})
    \/ handleToggleBackup({NoFault, [NoFault EXCEPT !.rest = TRUE]})

SpecSettle ==
    /\ Init /\ [][NextSettle]_vars
    /\ WF_vars(handleAutoSyncResumes({NoFault, [NoFault EXCEPT !.rest = TRUE]}))
    /\ WF_vars(handleBackupNowResumes({NoFault, [NoFault EXCEPT !.rest = TRUE]}))
    /\ WF_vars(handleImportBackupResumes({NoFault, [NoFault EXCEPT !.remote = TRUE]}))

\* ------------------------------------------------- saveLedger, step by step
\* HomeScreen.handleAddLedger with the awaits of saveLedger as separate
\* steps: the call reads the collection (storage.js:103), and writes it back
\* with its ledger put in (storage.js:104-106) when it runs again.  The
\* Add button stays enabled while a call is in progress.
MaxPending == 2

\* The store with the ledger collection the call had read
SnapshotStore_Reread(st, u, allLedgers) == st

SnapshotStore(st, u, allLedgers) ==
    [st EXCEPT ![getLedgersKey(u)] = JSONstringify(allLedgers)]

\* handleAddLedger up to the end of the read of saveLedger
handleAddLedgerStarts(names, cap) ==
    \E name \in names :
        LET newLedger == [id |-> idCounter + 1, name |-> name, balance |-> 0,
                          transactions |-> <<>>]
        IN /\ viewLedger = NoLedger
           /\ idCounter < cap
           /\ Len(pending.calls) < MaxPending
           /\ pending' = [pending EXCEPT !.calls =
                             Append(@, [ledger |-> newLedger,
                                        allLedgers |-> getAllLedgers(storage, user, NoFault).ret])]
           /\ idCounter' = idCounter + 1
           /\ lastOp' = NoOp
           /\ UNCHANGED <<app, user, storage, remote, viewLedger, now, backupFile, deleted,
                          vInput, vResult, home, profile>>

\* saveLedger from its write to its return, then the rest of handleAddLedger
saveLedgerResumes(FS) ==
    \E k \in DOMAIN pending.calls, f \in {g \in FS : ~g.read} :
        LET call == pending.calls[k]
            out == saveLedger(SnapshotStore(storage, user, call.allLedgers), remote, user,
                              call.ledger, f)
            done == IF out.fault THEN Outcome(FALSE, FALSE, TRUE, storage, remote) ELSE out
        IN /\ Apply(loadData(done.store, done.remote, user, now, NoFault))
           /\ lastOp' = Op("save", done, call.ledger, call.ledger.id, call.allLedgers)
           /\ pending' = [pending EXCEPT
                             !.calls = SubSeq(pending.calls, 1, k - 1)
                                          \o SubSeq(pending.calls, k + 1, Len(pending.calls)),
                             !.returned = IF done.ok THEN pending.returned \cup {call.ledger.id}
                                          ELSE pending.returned]
           /\ deleted' = IF done.ok THEN deleted \ {call.ledger.id} ELSE deleted
           /\ home' = [home EXCEPT !.categories = getCategories(storage', user, NoFault)]
           /\ UNCHANGED <<app, user, viewLedger, idCounter, now, backupFile, vInput, vResult,
                          profile>>

\* Taps on Add that overlap, with the deletion of ledgers and the backup
\* switch.
NextRace ==
    \/ handleAddLedgerStarts(Names, MaxIds)
    \/ saveLedgerResumes(StoreFaults)
    \/ confirmLedgerDelete({NoFault})
    \/ handleToggleBackup({NoFault})

SpecRace == Init /\ [][NextRace]_vars

\* ------------------------------------- updateBackupSettings, step by step
\* updateBackupSettings awaits getBackupSettings (storage.js:354) and then
\* AsyncStorage.setItem (storage.js:356): pending.settings holds, in the
\* order of their reads, the calls that have read the settings and not yet
\* written, each with what it read and what it was given.  AsyncStorage
\* answers in the order it was asked, so the calls write in that order.
\* pending.sync is the handleSyncNow of the profile screen: "idle",
\* "pushing" (syncAllToFirebase awaits its remote writes, syncingAll set) or
\* "saving" (its updateBackupSettings has read).

\* { ...current, ...settings } (storage.js:355)
MergeSettings(current, patch) ==
    [k \in DOMAIN current |-> IF k \in DOMAIN patch THEN patch[k] ELSE current[k]]

\* A tap on the backup switch: handleToggleBackup up to the end of the read
\* of its updateBackupSettings.  The user waits for the switch before the
\* next tap.
handleToggleBackupStarts ==
    \E value \in BOOLEAN :
        /\ viewLedger = NoLedger
        /\ \A k \in DOMAIN pending.settings : pending.settings[k].by # "toggle"
        /\ Len(pending.settings) < MaxPending
        /\ pending' = [pending EXCEPT
                          !.settings = Append(@, [by |-> "toggle",
                                                  patch |-> [autoBackup |-> value],
                                                  current |-> getBackupSettings(storage, user, NoFault)]),
                          !.wanted = IF value THEN "on" ELSE @]
        /\ lastOp' = NoOp
        /\ UNCHANGED <<app, user, storage, remote, viewLedger, idCounter, now, backupFile,
                       deleted, vInput, vResult, home, profile>>

\* A tap on Sync Now: handleSyncNow up to the first await of
\* syncAllToFirebase; nothing happens while syncingAll is set.
handleSyncNowStarts ==
    /\ viewLedger = NoLedger
    /\ user # NoUser
    /\ pending.sync = "idle"
    /\ pending' = [pending EXCEPT !.sync = "pushing"]
    /\ lastOp' = NoOp
    /\ UNCHANGED <<app, user, storage, remote, viewLedger, idCounter, now, backupFile,
                   deleted, vInput, vResult, home, profile>>

\* syncAllToFirebase from its remote writes to the end of the read of its
\* updateBackupSettings({lastSync})
syncAllToFirebaseReads ==
    /\ pending.sync = "pushing"
    /\ Len(pending.settings) < MaxPending
    /\ remote' = syncAllToFirebase(storage, remote, user, now, NoFault).remote
    /\ pending' = [pending EXCEPT
                      !.sync = "saving",
                      !.settings = Append(@, [by |-> "sync",
                                              patch |-> [lastSync |-> Time(now)],
                                              current |-> getBackupSettings(storage, user, NoFault)])]
    /\ lastOp' = NoOp
    /\ UNCHANGED <<app, user, storage, viewLedger, idCounter, now, backupFile, deleted,
                   vInput, vResult, home, profile>>

\* updateBackupSettings from its write to its return, and what its caller
\* does then: handleToggleBackup starts handleSyncNow when the switch was
\* put on; syncAllToFirebase returns true and handleSyncNow clears
\* syncingAll.
updateBackupSettingsResumes(FS) ==
    \E f \in {g \in FS : ~g.read /\ ~g.sread /\ ~g.remote /\ ~g.rest} :
        /\ pending.settings # <<>>
        /\ LET call == pending.settings[1]
               updated == MergeSettings(call.current, call.patch)
               ok == ~f.write
               value == call.by = "toggle" /\ call.patch.autoBackup
           IN /\ storage' = IF ok
                            THEN [storage EXCEPT ![getSettingsKey(user)] = JSONstringify(updated)]
                            ELSE storage
              /\ pending' = [pending EXCEPT
                                !.settings = Tail(@),
                                !.sync = IF call.by = "sync" THEN "idle"
                                         ELSE IF value /\ @ = "idle" /\ user # NoUser THEN "pushing"
                                         ELSE @,
                                !.wanted = IF call.by = "toggle" /\ ~value /\ ok THEN "off"
                                           ELSE @]
              /\ lastOp' = [NoOp EXCEPT !.api = IF call.by = "sync" THEN "syncAll" ELSE "settings",
                                        !.ok = ok, !.fault = ~ok]
        /\ UNCHANGED <<app, user, remote, viewLedger, idCounter, now, backupFile, deleted,
                       vInput, vResult, home, profile>>

\* The backup switch and the sync of the profile screen, over a store with
\* ledgers.
NextToggle ==
    \/ handleAddLedger({"Asha"}, {NoFault}, MaxSyncIds)
    \/ confirmLedgerDelete({NoFault})
    \/ handleToggleBackupStarts
    \/ handleSyncNowStarts
    \/ syncAllToFirebaseReads
    \/ updateBackupSettingsResumes({NoFault, [NoFault EXCEPT !.write = TRUE]})

SpecToggle == Init /\ [][NextToggle]_vars

\* ---------------------------------------------------------- App, PIN gate
\* What App renders once the splash screen is gone (App.js:189-241)
Displayed(a) ==
    IF a.loading THEN "Loading"
    ELSE IF ~a.user THEN "AuthStack"
    ELSE IF a.pinRequired /\ ~a.isAuthenticated THEN "PINScreen"
    ELSE "AppStack"

\* App mounted at a cold start: useState(null), useState(false),
\* useState(false), useState(true); the listener is registered and Firebase
\* will deliver the persisted user; the 5 s timer is set.
ColdApp(pinEnabled) ==
    [user |-> FALSE, isAuthenticated |-> FALSE, pinRequired |-> FALSE,
     loading |-> TRUE, events |-> <<TRUE>>, checks |-> 0, timer |-> TRUE,
     pinEnabled |-> pinEnabled, verified |-> FALSE]

InitApp ==
    /\ user \in Users
    /\ storage = [k \in Keys |-> Absent]
    /\ remote = EmptyRemote
    /\ viewLedger = NoLedger
    /\ idCounter = 0
    /\ now = SYNC_COOLDOWN_MS + 1
    /\ backupFile = Absent
    /\ lastOp = NoOp
    /\ deleted = {}
    /\ vInput = JUndef
    /\ vResult = NotValidated
    /\ home = IdleHome
    /\ pending = NoCalls
    /\ profile = [categories |-> DefaultCategories]
    /\ \E pinEnabled \in BOOLEAN : app = ColdApp(pinEnabled)

\* The listener of onAuthStateChanged (App.js:148-158): setUser, then
\* checkPINStatus up to its await for a user, the three setters for none.
onAuthStateChanged(a, authUser) ==
    IF authUser
    THEN [a EXCEPT !.user = TRUE, !.checks = @ + 1, !.events = Tail(@)]
    ELSE [a EXCEPT !.user = FALSE, !.isAuthenticated = FALSE,
                   !.pinRequired = FALSE, !.loading = FALSE, !.events = Tail(@)]

\* Firebase delivers the next auth event to the listener.
authStateChanged ==
    /\ app.events # <<>>
    /\ Head(app.events) => app.checks < MaxPending
    /\ app' = onAuthStateChanged(app, Head(app.events))
    /\ lastOp' = NoOp
    /\ UNCHANGED <<user, storage, remote, viewLedger, idCounter, now, backupFile,
                   deleted, vInput, vResult, home, pending, profile>>

\* checkPINStatus from the end of isPINEnabled (App.js:174-188), which gives
\* false when its read fails (PINScreen.js:326-333).
checkPINStatusResumes ==
    \E failed \in BOOLEAN :
        LET enabled == app.pinEnabled /\ ~failed
        IN /\ app.checks > 0
           /\ app' = [app EXCEPT !.checks = @ - 1,
                                 !.pinRequired = enabled,
                                 !.isAuthenticated = IF enabled THEN @ ELSE TRUE,
                                 !.loading = FALSE]
           /\ lastOp' = NoOp
           /\ UNCHANGED <<user, storage, remote, viewLedger, idCounter, now, backupFile,
                          deleted, vInput, vResult, home, pending, profile>>

\* The safety timeout (App.js:164-169): its closure holds the loading of the
\* first render, true.
loadingTimeout ==
    /\ app.timer
    /\ app' = [app EXCEPT !.timer = FALSE, !.loading = FALSE]
    /\ lastOp' = NoOp
    /\ UNCHANGED <<user, storage, remote, viewLedger, idCounter, now, backupFile,
                   deleted, vInput, vResult, home, pending, profile>>

\* PINScreen.verifyPIN with the stored PIN entered: onSuccess is
\* handlePINSuccess
verifyPIN ==
    /\ Displayed(app) = "PINScreen"
    /\ app' = [app EXCEPT !.isAuthenticated = TRUE, !.verified = TRUE]
    /\ lastOp' = NoOp
    /\ UNCHANGED <<user, storage, remote, viewLedger, idCounter, now, backupFile,
                   deleted, vInput, vResult, home, pending, profile>>

\* UserProfileScreen.handleLogout on the main stack: signOut(auth); the
\* listener is told later.
signOut ==
    /\ Displayed(app) = "AppStack"
    /\ user # NoUser
    /\ Len(app.events) < MaxPending
    /\ user' = NoUser
    /\ app' = [app EXCEPT !.events = Append(@, FALSE), !.verified = FALSE]
    /\ lastOp' = NoOp
    /\ UNCHANGED <<storage, remote, viewLedger, idCounter, now, backupFile,
                   deleted, vInput, vResult, home, pending, profile>>

\* LoginScreen.handleLogin on the sign-in stack: signInWithEmailAndPassword
\* succeeded; the listener is told later.
signIn ==
    /\ Displayed(app) = "AuthStack"
    /\ user = NoUser
    /\ Len(app.events) < MaxPending
    /\ user' \in Users
    /\ app' = [app EXCEPT !.events = Append(@, TRUE), !.verified = FALSE]
    /\ lastOp' = NoOp
    /\ UNCHANGED <<storage, remote, viewLedger, idCounter, now, backupFile,
                   deleted, vInput, vResult, home, pending, profile>>

\* A ledger added on the home screen of the main stack
addLedgerOnAppStack ==
    /\ Displayed(app) = "AppStack"
    /\ handleAddLedger({"Asha"}, {NoFault}, MaxSyncIds)

NextApp ==
    \/ authStateChanged
    \/ checkPINStatusResumes
    \/ loadingTimeout
    \/ verifyPIN
    \/ signOut
    \/ signIn
    \/ addLedgerOnAppStack

SpecApp == InitApp /\ [][NextApp]_vars

\* The add-transaction screen with the amount typed on its keypad.
NextAmount ==
    \/ handleAddLedger({"Asha"}, {NoFault}, MaxIds)
    \/ openLedger({NoFault})
    \/ goBack
    \/ handleConfirmAdd(TypedAmounts, Dates, {NoFault}, MaxIds)
    \/ handleConfirmEdit(TypedAmounts, Dates, {NoFault})
    \/ confirmDelete({NoFault})

SpecAmount == Init /\ [][NextAmount]_vars

\* ------------------------------------------------- expenses and categories
\* HomeScreen.handleAddExpense: saveExpense, then loadData
handleAddExpense(amounts, FS, cap) ==
    \E amount \in amounts, f \in FS :
        LET newExpense == [id |-> idCounter + 1, amount |-> amount]
            out == saveExpense(storage, remote, user, newExpense, f)
        IN /\ viewLedger = NoLedger
           /\ idCounter < cap
           /\ Apply(loadData(out.store, out.remote, user, now, NoFault))
           /\ lastOp' = Op("saveExpense", out, NoLedger, newExpense.id, EmptyMap)
           /\ idCounter' = idCounter + 1
           /\ home' = [home EXCEPT !.categories = getCategories(storage', user, NoFault)]
           /\ UNCHANGED <<app, user, viewLedger, now, backupFile, deleted, vInput, vResult,
                          pending, profile>>

\* A long press on an expense of the home list, confirmed
\* (part_005:1539-1551): deleteExpense, then loadData
handleDeleteExpense(FS) ==
    \E i \in DOMAIN getExpenses(storage, user, NoFault), f \in FS :
        LET item == getExpenses(storage, user, NoFault)[i]
            out == deleteExpense(storage, remote, user, item.id, f)
        IN /\ viewLedger = NoLedger
           /\ Apply(loadData(out.store, out.remote, user, now, NoFault))
           /\ lastOp' = Op("deleteExpense", out, NoLedger, item.id, EmptyMap)
           /\ home' = [home EXCEPT !.categories = getCategories(storage', user, NoFault)]
           /\ UNCHANGED <<app, user, viewLedger, idCounter, now, backupFile, deleted, vInput,
                          vResult, pending, profile>>

\* The ids the render of CategoryManager shows as Default, without rename
\* and delete (CategoryManager.js:61, 135, 141)
IsDefault(catId) ==
    catId \in {"Food", "Travel", "Study", "Rent", "Entertainment", "Health", "Salary",
               "Other"}

\* The duplicate test comparing the ids as they are written
SomeEqual(categories, name, but) ==
    \E i \in DOMAIN categories : categories[i] = name /\ categories[i] # but

\* categories.some(c => c.id.toLowerCase() === name.toLowerCase() && c.id !== but)
SomeEqualIgnoringCase(categories, name, but) ==
    \E i \in DOMAIN categories :
        toLowerCase(categories[i]) = toLowerCase(name) /\ categories[i] # but

\* CategoryManager.handleAdd on the categories HomeScreen passes to it
handleAdd(names, FS) ==
    \E newCatName \in names, f \in FS :
        LET categories == home.categories
            updated == Append(categories, trim(newCatName))
            out == saveCategories(storage, remote, user, updated, f)
        IN /\ viewLedger = NoLedger
           /\ IF trim(newCatName) = ""
                 \/ SomeEqualIgnoringCase(categories, trim(newCatName), NoCategory)
              THEN /\ lastOp' = NoOp
                   /\ UNCHANGED <<app, storage, remote, home>>
              ELSE /\ Apply(out)
                   /\ lastOp' = Op("saveCategories", out, NoLedger, 0, EmptyMap)
                   /\ home' = IF out.ok THEN [home EXCEPT !.categories = updated]
                              ELSE home
           /\ UNCHANGED <<app, user, viewLedger, idCounter, now, backupFile, deleted, vInput,
                          vResult, pending, profile>>

\* CategoryManager.handleDelete, confirmed, from the trash button of a row
\* that is not a default and not in edit
handleDelete(FS) ==
    \E i \in DOMAIN home.categories, f \in FS :
        LET catId == home.categories[i]
            updated == WithoutCategory(home.categories, catId)
            out == saveCategories(storage, remote, user, updated, f)
        IN /\ viewLedger = NoLedger
           /\ ~IsDefault(catId)
           /\ catId # home.editingCatId
           /\ Apply(out)
           /\ lastOp' = Op("saveCategories", out, NoLedger, 0, EmptyMap)
           /\ home' = IF out.ok THEN [home EXCEPT !.categories = updated] ELSE home
           /\ UNCHANGED <<app, user, viewLedger, idCounter, now, backupFile, deleted, vInput,
                          vResult, pending, profile>>

\* CategoryManager.handleEditStart from the name of a row
handleEditStart ==
    \E i \in DOMAIN home.categories :
        LET cat == home.categories[i]
        IN /\ viewLedger = NoLedger
           /\ cat # home.editingCatId
           /\ home' = IF IsDefault(cat) THEN home ELSE [home EXCEPT !.editingCatId = cat]
           /\ lastOp' = NoOp
           /\ UNCHANGED <<app, user, storage, remote, viewLedger, idCounter, now, backupFile,
                          deleted, vInput, vResult, pending, profile>>

\* CategoryManager.handleEditSave from the row in edit
handleEditSave(names, FS) ==
    \E editName \in names \cup {home.editingCatId}, f \in FS :
        LET categories == home.categories
            editingCatId == home.editingCatId
            updated == [i \in DOMAIN categories |->
                           IF categories[i] = editingCatId THEN trim(editName)
                           ELSE categories[i]]
            out == saveCategories(storage, remote, user, updated, f)
        IN /\ viewLedger = NoLedger
           /\ \E i \in DOMAIN categories : categories[i] = editingCatId
           /\ IF trim(editName) = "" \/ trim(editName) = editingCatId
              THEN /\ home' = [home EXCEPT !.editingCatId = NoCategory]
                   /\ lastOp' = NoOp
                   /\ UNCHANGED <<app, storage, remote>>
              ELSE IF SomeEqualIgnoringCase(categories, trim(editName), editingCatId)
              THEN /\ lastOp' = NoOp
                   /\ UNCHANGED <<app, storage, remote, home>>
              ELSE /\ Apply(out)
                   /\ lastOp' = Op("saveCategories", out, NoLedger, 0, EmptyMap)
                   /\ home' = IF out.ok
                              THEN [home EXCEPT !.categories = updated,
                                                !.editingCatId = NoCategory]
                              ELSE home
           /\ UNCHANGED <<app, user, viewLedger, idCounter, now, backupFile, deleted, vInput,
                          vResult, pending, profile>>

\* UserProfileScreen.loadProfile: the categories of the screen
loadProfile(FS) ==
    \E f \in {g \in FS : ~g.write /\ ~g.sread /\ ~g.remote /\ ~g.rest} :
        /\ viewLedger = NoLedger
        /\ profile' = [categories |-> getCategories(storage, user, f)]
        /\ lastOp' = NoOp
        /\ UNCHANGED <<app, user, storage, remote, viewLedger, idCounter, now, backupFile,
                       deleted, vInput, vResult, home, pending>>

\* UserProfileScreen.handleAddUserCategory
handleAddUserCategory(names, FS) ==
    \E newCatName \in names, f \in FS :
        LET categories == profile.categories
            updated == Append(categories, trim(newCatName))
            out == saveCategories(storage, remote, user, updated, f)
        IN /\ viewLedger = NoLedger
           /\ IF trim(newCatName) = ""
                 \/ SomeEqualIgnoringCase(categories, trim(newCatName), NoCategory)
              THEN /\ lastOp' = NoOp
                   /\ UNCHANGED <<app, storage, remote, profile>>
              ELSE /\ Apply(out)
                   /\ lastOp' = Op("saveCategories", out, NoLedger, 0, EmptyMap)
                   /\ profile' = [categories |-> updated]
           /\ UNCHANGED <<app, user, viewLedger, idCounter, now, backupFile, deleted, vInput,
                          vResult, home, pending>>

\* UserProfileScreen.handleDeleteCategory
handleDeleteCategory(ids, FS) ==
    \E i \in DOMAIN profile.categories, f \in FS :
        LET catId == profile.categories[i]
            updated == WithoutCategory(profile.categories, catId)
            out == saveCategories(storage, remote, user, updated, f)
        IN /\ viewLedger = NoLedger
           /\ catId \in ids
           /\ IF catId \in {"Food", "Travel", "Study", "Other"}
              THEN /\ lastOp' = NoOp
                   /\ UNCHANGED <<app, storage, remote, profile>>
              ELSE /\ Apply(out)
                   /\ lastOp' = Op("saveCategories", out, NoLedger, 0, EmptyMap)
                   /\ profile' = [categories |-> updated]
           /\ UNCHANGED <<app, user, viewLedger, idCounter, now, backupFile, deleted, vInput,
                          vResult, home, pending>>

\* The faults of a saveCategories call: the local write or the remote write
CategoryFaults ==
    {NoFault, [NoFault EXCEPT !.write = TRUE], [NoFault EXCEPT !.remote = TRUE]}

\* The category handlers of the two screens, and the home screen loading
\* its lists again.
NextCategories ==
    \/ handleAdd(NewCatNames, {NoFault, [NoFault EXCEPT !.write = TRUE]})
    \/ handleDelete({NoFault})
    \/ handleEditStart
    \/ handleEditSave(NewCatNames, {NoFault})
    \/ loadProfile({NoFault})
    \/ handleAddUserCategory({"Gym"}, {NoFault})
    \/ handleDeleteCategory({"Food", "Rent", "Gym"}, {NoFault})
    \/ focusHome({NoFault, [NoFault EXCEPT !.read = TRUE]})

SpecCategories == Init /\ [][NextCategories]_vars

\* The keys of the store under two identities: signing out and in around the
\* operations on ledgers, categories, settings, the reset and the backup file.
NextIsolation ==
    \/ handleLogout
    \/ handleLogin
    \/ handleAddLedger({"Asha"}, {NoFault}, MaxSyncIds)
    \/ handleAdd({"Gym"}, {NoFault})
    \/ handleToggleBackup({NoFault})
    \/ confirmResetData({NoFault, [NoFault EXCEPT !.write = TRUE]})
    \/ handleBackupNow({NoFault})
    \/ importBackup(<<>>, {NoFault})

SpecIsolation == Init /\ [][NextIsolation]_vars

\* A transaction deleted with autoBackup on, then the pull from the cloud,
\* every call succeeding.
NextResync ==
    \/ handleAddLedger({"Asha"}, {NoFault}, MaxIds)
    \/ openLedger({NoFault})
    \/ goBack
    \/ handleConfirmAdd({1}, {1}, {NoFault}, MaxIds)
    \/ confirmDeleteRecorded({NoFault}, TRUE)
    \/ handleToggleBackup({NoFault})
    \/ handleImportBackup({NoFault})

SpecResync == Init /\ [][NextResync]_vars

\* The transaction screens over a store that a pull from the cloud, started
\* on the home screen, overwrites while they are open: the ledger and the
\* transaction of their route params may be in the store no more.
NextStale ==
    \/ handleAddLedger({"Asha"}, {NoFault}, MaxIds)
    \/ openLedger({NoFault})
    \/ goBack
    \/ handleConfirmAdd({1}, {1}, {NoFault}, MaxIds)
    \/ confirmDelete({NoFault})
    \/ handleSyncNow({NoFault})
    \/ handleImportBackupStarts
    \/ handleImportBackupResumes({NoFault})

SpecStale == Init /\ [][NextStale]_vars

\* The mutations of the ledgers with the backup switch of the profile screen.
NextMutate ==
    \/ handleAddLedger({"Asha"}, {NoFault}, MaxIds)
    \/ openLedger({NoFault})
    \/ goBack
    \/ handleConfirmAdd({1}, {1}, AllFaults, MaxIds)
    \/ confirmDelete({NoFault})
    \/ confirmLedgerDelete({f \in AllFaults : ~f.read /\ ~f.sread})
    \/ handleToggleBackup({NoFault})

SpecMutate == Init /\ [][NextMutate]_vars

\* The mutations of ledgers, expenses and categories with the backup switch.
NextOff ==
    \/ handleAddLedger({"Asha"}, {NoFault}, MaxSyncIds)
    \/ openLedger({NoFault})
    \/ goBack
    \/ handleConfirmAdd({1}, {1}, StoreFaults, MaxSyncIds)
    \/ confirmDelete({NoFault})
    \/ confirmLedgerDelete(StoreFaults)
    \/ handleAddExpense({1}, AllFaults, MaxSyncIds)
    \/ handleDeleteExpense({NoFault, [NoFault EXCEPT !.sread = TRUE]})
    \/ handleAdd({"Gym"}, CategoryFaults)
    \/ handleDelete({NoFault})
    \/ handleToggleBackup({NoFault})

SpecOff == Init /\ [][NextOff]_vars

\* --------------------------------------------------- validateBackupFile
\* One entry of a ledgers object, by what each of its fields holds.
LedgerEntry(kind, i, n, b, t) ==
    IF kind = "null" THEN JNull
    ELSE LET val == [id |-> IF i = "ok" THEN JNum(1) ELSE JUndef,
                     name |-> IF n = "ok" THEN JStr("Asha") ELSE JUndef,
                     balance |-> CASE b = "num" -> JNum(0)
                                   [] b = "str" -> JStr("0")
                                   [] OTHER -> JUndef,
                     transactions |-> CASE t = "arr" -> JArr(<<>>)
                                        [] t = "zero" -> JNum(0)
                                        [] t = "empty" -> JStr("")
                                        [] t = "str" -> JStr("x")
                                        [] t = "null" -> JNull
                                        [] OTHER -> JUndef]
         IN JObj([k \in {k \in DOMAIN val : val[k].t # "undefined"} |-> val[k]])

\* A value handed to validateBackupFile, by what each of its parts holds.
BackupInput(kind, version, ledgers, entries) ==
    CASE kind = "undefined" -> JUndef
      [] kind = "null" -> JNull
      [] OTHER ->
         LET val == [version |-> IF version = "ok" THEN JStr("1.0") ELSE JUndef,
                     ledgers |-> CASE ledgers = "map" -> JObj(entries)
                                   [] ledgers = "arr" -> JArr(entries)
                                   [] ledgers = "str" -> JStr("none")
                                   [] OTHER -> JUndef]
         IN JObj([k \in {k \in DOMAIN val : val[k].t # "undefined"} |-> val[k]])

InitValidate ==
    /\ user \in Users
    /\ storage = [k \in Keys |-> Absent]
    /\ remote = EmptyRemote
    /\ viewLedger = NoLedger
    /\ idCounter = 0
    /\ now = SYNC_COOLDOWN_MS + 1
    /\ backupFile = Absent
    /\ lastOp = NoOp
    /\ deleted = {}
    /\ vResult = NotValidated
    /\ home = IdleHome
    /\ pending = NoCalls
    /\ profile = [categories |-> DefaultCategories]
    /\ app = ShownApp
    /\ \E kind \in {"undefined", "null", "obj"}, version \in {"none", "ok"},
          ledgers \in {"none", "str", "arr", "map"}, count \in 0..2,
          k1 \in {"null", "obj"}, i \in {"none", "ok"}, n \in {"none", "ok"},
          b \in {"none", "num", "str"},
          t \in {"none", "arr", "zero", "empty", "str", "null"},
          second \in {"good", "null", "unnamed"} :
        LET l1 == LedgerEntry(k1, i, n, b, t)
            l2 == CASE second = "good" -> LedgerEntry("obj", "ok", "ok", "num", "arr")
                    [] second = "null" -> JNull
                    [] OTHER -> LedgerEntry("obj", "ok", "none", "num", "none")
            entries == CASE count = 0 -> <<>>
                         [] count = 1 -> <<l1>>
                         [] OTHER -> <<l1, l2>>
        IN vInput = BackupInput(kind, version, ledgers, entries)

\* validateBackupFile applied to the value
validate ==
    /\ ~vResult.done
    /\ vResult' = validateBackupFile(vInput)
    /\ UNCHANGED <<app, user, storage, remote, viewLedger, idCounter, now, home, pending, profile, backupFile,
                   lastOp, deleted, vInput>>

NextValidate == validate

SpecValidate == InitValidate /\ [][NextValidate]_vars

\* ------------------------------------------------------------ properties
RECURSIVE SignedSum(_)
\* credit counted positive, debit negative
SignedSum(txs) ==
    IF txs = <<>> THEN 0
    ELSE calculateBalance(SignedSum(SubSeq(txs, 1, Len(txs) - 1)),
                          txs[Len(txs)].type, txs[Len(txs)].amount)

\* C1: every stored ledger's balance is the signed sum of the amounts of its
\* transactions (credit positive, debit negative), after any sequence of
\* adds, edits and deletes of transactions.
C1_BalanceIsSignedSum ==
    \A id \in DOMAIN Ledgers :
        Ledgers[id].balance = SignedSum(Ledgers[id].transactions)

\* C2: in every stored ledger, taken in ascending date order, each
\* transaction's balanceAfter is the cumulative signed sum up to and
\* including itself.
C2_BalanceAfterIsRunningSum ==
    \A id \in DOMAIN Ledgers :
        LET txs == SortByDate(Ledgers[id].transactions)
        IN \A i \in DOMAIN txs : txs[i].balanceAfter = SignedSum(SubSeq(txs, 1, i))

\* C3: every stored ledger's balance is the balanceAfter of its
\* chronologically last transaction, and 0 when it has none.
C3_BalanceIsLastBalanceAfter ==
    \A id \in DOMAIN Ledgers :
        LET txs == SortByDate(Ledgers[id].transactions)
        IN Ledgers[id].balance =
               IF txs = <<>> THEN 0 ELSE txs[Len(txs)].balanceAfter

\* What an equivalent collection has in common: ids, names, balances and
\* per-ledger transaction counts.
Summary(all) ==
    [id \in DOMAIN all |->
        [name |-> all[id].name, balance |-> all[id].balance,
         count |-> Len(all[id].transactions)]]

\* The same of the ledgers written in a backup file
FileSummary(file) ==
    LET ledgers == Get(JSONparse(file).val, "ledgers").v
    IN [id \in DOMAIN ledgers |->
           [name |-> Get(ledgers[id], "name").v,
            balance |-> Get(ledgers[id], "balance").v,
            count |-> Len(Get(ledgers[id], "transactions").v)]]

\* C4: after importDataFromBackup succeeded on the file exportDataToBackup
\* produced, getAll() returns a collection equivalent to the exported one
\* (same ids, names, balances and transaction counts), whatever happened to
\* the local collection between the export and the import.
C4_ImportReproducesExport ==
    (lastOp.api = "import" /\ lastOp.ok /\ lastOp.exported)
        => Summary(Ledgers) = FileSummary(lastOp.file)

\* C5: a ledger whose deleteLedger returned true, and that was not saved
\* again since, is not in getAll(): not right after the deletion and not
\* after a later fetch from the cloud, whatever autoBackup was.
C5_DeletedLedgerStaysDeleted ==
    \A id \in deleted : id \notin DOMAIN Ledgers

\* The picked file fails validation: it is not JSON, or validateBackupFile
\* returns false for what it parses to.
FailsValidation(file) ==
    \/ JSONparse(file).threw
    \/ ~validateBackupFile(JSONparse(file).val).ret

\* C6: importDataFromBackup on a file that fails validation returns a
\* failure and leaves every storage key as it was.
C6_InvalidImportChangesNothing ==
    [][(lastOp'.api = "import" /\ FailsValidation(lastOp'.file))
          => (~lastOp'.ok /\ storage' = storage)]_vars

\* An import of a JSON file without a ledgers key has failed, no call
\* having been rejected, while ledgers are stored.
C6_Witness ==
    /\ lastOp.api = "import"
    /\ ~lastOp.fault
    /\ ~JSONparse(lastOp.file).threw
    /\ Get(JSONparse(lastOp.file).val, "ledgers").t = "undefined"
    /\ ~lastOp.ok
    /\ Ledgers # EmptyMap

\* x has a k
Present(x, k) == Get(x, k).t \notin {"undefined", "null"}

\* A version, a ledgers mapping, and in it only ledgers with an id, a name,
\* a numeric balance and, if they have transactions, an array of them.
WellFormed(data) ==
    /\ data.t = "object"
    /\ Present(data, "version")
    /\ Get(data, "ledgers").t \in {"object", "array"}
    /\ \A k \in DOMAIN Get(data, "ledgers").v :
           LET ledger == Get(data, "ledgers").v[k] IN
           /\ ledger.t = "object"
           /\ Present(ledger, "id")
           /\ Present(ledger, "name")
           /\ Get(ledger, "balance").t = "number"
           /\ Present(ledger, "transactions")
                  => Get(ledger, "transactions").t = "array"

\* C7: validateBackupFile returns true exactly for the well-formed values,
\* false for all others, and never throws.
C7_ValidateExactlyWellFormed ==
    vResult.done => (vResult.ret = WellFormed(vInput) /\ ~vResult.threw)

\* C8: getAll() returns the empty mapping when the ledger key of the
\* identity is absent, holds text that does not parse, or cannot be read; it
\* does not throw and leaves storage as it was.
C8_GetAllDegradesToEmpty ==
    [][(/\ lastOp'.api = "getAll"
        /\ \/ storage[getLedgersKey(user)].kind \in {"absent", "corrupt"}
           \/ lastOp'.fault)
          => (lastOp'.ret = EmptyMap /\ ~lastOp'.threw /\ storage' = storage)]_vars

\* getAll() has returned the empty mapping for a blob that does not parse.
C8_Witness ==
    /\ lastOp.api = "getAll"
    /\ ~lastOp.fault
    /\ storage[getLedgersKey(user)].kind = "corrupt"
    /\ lastOp.ret = EmptyMap
    /\ ~lastOp.threw

\* C9: when save(ledger) returns true, getAll() has the saved ledger under
\* its id and every other ledger of the collection is still there, unchanged.
C9_SaveIsUpsert ==
    [][(lastOp'.api = "save" /\ lastOp'.ok)
          => /\ lastOp'.id \in DOMAIN Ledgers'
             /\ Ledgers'[lastOp'.id] = lastOp'.arg
             /\ \A other \in DOMAIN Ledgers \ {lastOp'.id} :
                    /\ other \in DOMAIN Ledgers'
                    /\ Ledgers'[other] = Ledgers[other]]_vars

LedgerOps ==
    {"getAll", "save", "deleteLedger", "deleteTransaction", "syncAll", "fetch"}

LocalData(st, u) ==
    <<getBackupSettings(st, u, NoFault).lastSync, st[getLedgersKey(u)],
      st[getExpensesKey(u)], st[getCategoriesKey(u)]>>

\* C11: with nobody signed in, syncAllToRemote returns false, writes nothing
\* to the remote store, and leaves lastSync and the local collections as
\* they were.
C11_SignedOutSyncDoesNothing ==
    [][(lastOp'.api = "syncAll" /\ user = NoUser)
          => /\ ~lastOp'.ok
             /\ remote' = remote
             /\ LocalData(storage', user) = LocalData(storage, user)]_vars

\* A sync was asked for and refused while nobody was signed in, ledgers being
\* stored for the guest and for nobody in the cloud.
C11_Witness ==
    /\ lastOp.api = "syncAll"
    /\ user = NoUser
    /\ ~lastOp.ok
    /\ Ledgers # EmptyMap
    /\ remote.ledgers = EmptyMap

\* C12: a run of syncAllToRemote in which a remote write (of a ledger, a
\* transaction, an expense or the categories) failed returns false and
\* leaves lastSync at its previous value.
C12_FailedWriteKeepsLastSync ==
    [][(lastOp'.api = "syncAll" /\ lastOp'.wfail)
          => /\ ~lastOp'.ok
             /\ getBackupSettings(storage', user, NoFault).lastSync
                    = getBackupSettings(storage, user, NoFault).lastSync]_vars

\* ascending date order
IsSortedByDate(txs) ==
    \A i, j \in DOMAIN txs : i < j => txs[i].date <= txs[j].date

\* C13: after fetchAllFromRemote completed for the signed-in identity, the
\* local collection holds exactly the ledgers that have a remote ledger
\* document, each with the transactions of its remote subcollection in
\* ascending date order.
C13_FetchOverwritesLocal ==
    (lastOp.api = "fetch" /\ lastOp.ok)
        => /\ DOMAIN Ledgers = DOMAIN remote.ledgers
           /\ \A id \in DOMAIN Ledgers :
                  /\ Ledgers[id].name = remote.ledgers[id].name
                  /\ {Ledgers[id].transactions[k].id :
                          k \in DOMAIN Ledgers[id].transactions} = DOMAIN remote.tx[id]
                  /\ IsSortedByDate(Ledgers[id].transactions)

\* A fetch has completed that brought a ledger whose transactions, put in
\* date order, are not in the order of their ids.
C13_Witness ==
    /\ lastOp.api = "fetch"
    /\ lastOp.ok
    /\ \E id \in DOMAIN Ledgers :
           \E i, j \in DOMAIN Ledgers[id].transactions :
               /\ i < j
               /\ Ledgers[id].transactions[i].id > Ledgers[id].transactions[j].id

C15_DeleteRemovesOneDocument ==
    [][(/\ lastOp'.api = "deleteLedger" /\ lastOp'.ok /\ ~lastOp'.fault
        /\ user # NoUser
        /\ getBackupSettings(storage, user, NoFault).autoBackup
        /\ ~autoSyncDue(storage', user, now, FALSE, NoFault))
       => remote' = [remote EXCEPT !.ledgers = Remove(@, lastOp'.id)]]_vars

\* A ledger with transactions in the cloud has been deleted with autoBackup
\* on: its document is gone, its transaction documents are there, and so is
\* the document of another ledger.
C15_Witness ==
    /\ lastOp.api = "deleteLedger" /\ lastOp.ok
    /\ getBackupSettings(storage, user, NoFault).autoBackup
    /\ lastOp.id \notin DOMAIN remote.ledgers
    /\ remote.tx[lastOp.id] # EmptyMap
    /\ remote.ledgers # EmptyMap

\* The mutations of the ledgers, the expenses and the categories
MutationOps ==
    {"save", "deleteLedger", "deleteTransaction", "saveExpense", "deleteExpense",
     "saveCategories"}

\* C16: while the stored autoBackup is false, a save, deleteLedger,
\* deleteTransaction, saveExpense, deleteExpense or saveCategories, with the
\* handler around it, leaves the remote store as it was.
C16_NoRemoteWriteWhenOff ==
    [][(/\ lastOp'.api \in MutationOps
        /\ ~getBackupSettings(storage, user, NoFault).autoBackup)
       => remote' = remote]_vars

\* With autoBackup switched off again after a sync, a category was saved
\* that the document in the cloud does not list.
C16_Witness ==
    /\ ~getBackupSettings(storage, user, NoFault).autoBackup
    /\ lastOp.api = "saveCategories" /\ lastOp.ok
    /\ remote.cats.exists
    /\ remote.cats.list # getCategories(storage, user, NoFault)

\* The category list in the store of the identity ([] when none is stored)
StoredCategories ==
    LET jsonValue == storage[getCategoriesKey(user)]
    IN IF jsonValue.kind = "json" THEN jsonValue.val ELSE <<>>

\* C17: the stored category list never holds two categories whose ids are
\* equal when letter case is ignored.
C17_CategoryIdsUnique ==
    \A i, j \in DOMAIN StoredCategories :
        i # j => toLowerCase(StoredCategories[i]) # toLowerCase(StoredCategories[j])

\* Adds and renames have stored a list with two categories of the user, one
\* of them a name that was typed in two spellings.
C17_Witness ==
    /\ \E i \in DOMAIN StoredCategories : StoredCategories[i] = "Yoga"
    /\ \E i \in DOMAIN StoredCategories : StoredCategories[i] = "gym"
    /\ lastOp.api = "saveCategories"

\* C18: once the eight default categories are in the stored list, every
\* category operation leaves all eight in it.
C18_DefaultsStay ==
    [][(\A d \in DOMAIN DefaultCategories :
            \E i \in DOMAIN StoredCategories : StoredCategories[i] = DefaultCategories[d])
       => (\A d \in DOMAIN DefaultCategories :
            \E i \in DOMAIN StoredCategories' : StoredCategories'[i] = DefaultCategories[d])]_vars

\* C19: a save writes back the collection it had read with its own ledger
\* put in, whatever was written since; so two saves of different ids that
\* overlap can both return true and leave one ledger stored (C19_Witness).
C19_SaveWritesWhatItRead ==
    [][(lastOp'.api = "save" /\ lastOp'.ok)
       => Ledgers' = Put(lastOp'.ret, lastOp'.id, lastOp'.arg)]_vars

\* Two saves of different ledgers have both returned true, no call is in
\* progress, nothing was deleted, and one of the two ledgers is not stored.
C19_Witness ==
    /\ pending.calls = <<>>
    /\ deleted = {}
    /\ lastOp.api = "save"
    /\ \E a, b \in pending.returned :
           a # b /\ a \in DOMAIN Ledgers /\ b \notin DOMAIN Ledgers

\* C20: on the home screen at most one of handleAutoSync, handleBackupNow
\* and handleImportBackup is between its start and its end at any time.
C20_OneSyncInFlight ==
    InFlight(home) <= 1

\* Every sync the home screen starts sets syncing back to false.
FlagReturns ==
    home.syncing ~> ~home.syncing

\* No loadData that the end of a failed sync ran starts a sync.
NoRetry ==
    [][~(/\ home'.step = "loadData" /\ home' # home
         /\ home'.origin = "failed"
         /\ home'.auto > home.auto)]_vars

\* C21: the sync status goes idle, syncing, idle: the flag set by a sync of
\* the home screen is cleared again whether the remote calls succeed or
\* are rejected, and a sync that failed is not started again by the screen
\* itself.
C21_IdleSyncingIdle ==
    FlagReturns /\ NoRetry


\* C22: every transaction stored through AddTransactionScreen has an amount
\* above 0, whatever text the keypad left in the amount field: a text that
\* evaluates to 0 or less makes handleConfirm return before any save.
C22_StoredAmountsPositive ==
    \A u \in Users \cup {NoUser} :
        LET all == getAllLedgers(storage, u, NoFault).ret
        IN \A id \in DOMAIN all : \A k \in DOMAIN all[id].transactions :
               all[id].transactions[k].amount > 0


\* C23: after a transaction was added or edited and saved, whatever its
\* date, the stored transactions of the ledger are in ascending date order,
\* each balanceAfter is the running balance of the walk over that list from
\* 0, and the ledger's balance is the last one of the walk.
C23_StoredOrderChronological ==
    (lastOp.api = "save" /\ lastOp.ok /\ lastOp.arg # NoLedger
        /\ lastOp.arg.transactions # <<>>) =>
        LET txs == Ledgers[lastOp.id].transactions
            walk == RunningBalances(txs, 0)
        IN /\ \A i, j \in DOMAIN txs : i < j => txs[i].date <= txs[j].date
           /\ txs = walk
           /\ Ledgers[lastOp.id].balance = walk[Len(walk)].balanceAfter

\* a saved transaction dated before the one entered before it
C23_Witness ==
    /\ lastOp.api = "save" /\ lastOp.ok /\ lastOp.arg # NoLedger
    /\ lastOp.id \in DOMAIN Ledgers
    /\ LET txs == Ledgers[lastOp.id].transactions
       IN /\ Len(txs) >= 2
          /\ txs[1].id > txs[2].id
          /\ txs[1].date < txs[2].date


\* The keys an identity's operations are meant to touch.
OwnKeys(u) == {getLedgersKey(u), getExpensesKey(u), getCategoriesKey(u), getSettingsKey(u)}

\* C24: an operation run while an identity is signed in changes the blobs of
\* that identity's keys only: every other key of the store, the guest keys
\* included, holds after it what it held before.
C24_IdentityIsolation ==
    [][(user # NoUser /\ user' = user) =>
          \A k \in Keys \ OwnKeys(user) : storage'[k] = storage[k]]_vars


\* C25: when a save, deleteLedger, deleteTransaction, saveExpense,
\* deleteExpense or saveCategories returns false, whichever of its calls
\* failed, the local collections of the identity are what they were before
\* the call.
C25_FalseMeansUnchanged ==
    [][(lastOp'.api \in MutationOps /\ ~lastOp'.ok) =>
          \A k \in OwnKeys(user) : storage'[k] = storage[k]]_vars


\* C26: with autoBackup on and a user signed in, after deleteTransaction
\* returned true and its resync went through, a fetch from the cloud that
\* follows gives ledgers without the deleted transaction.
C26_DeletedTransactionStaysDeleted ==
    (lastOp.api = "fetch" /\ lastOp.ok) =>
        \A id \in DOMAIN Ledgers : \A k \in DOMAIN Ledgers[id].transactions :
            Ledgers[id].transactions[k].id \notin deleted


\* C27: a deleteTransaction whose ids match nothing changes no data: for a
\* ledger id that is not stored it returns false and leaves the store as it
\* was, and for a stored ledger none of whose transactions has the id (the
\* list is the same after the call) the balance is the same after the call.
C27_UnmatchedDeleteIsNoOp ==
    [][lastOp'.api = "deleteTransaction" =>
          IF lastOp'.id \notin DOMAIN Ledgers
          THEN ~lastOp'.ok /\ storage' = storage
          ELSE Ledgers'[lastOp'.id].transactions = Ledgers[lastOp'.id].transactions
                  => Ledgers'[lastOp'.id].balance = Ledgers[lastOp'.id].balance]_vars


\* C28: once the user has switched auto-backup off, the updateBackupSettings
\* of the switch having returned true, the stored autoBackup is false until
\* the user taps the switch on again, whatever sync was in flight at the
\* moment of the tap.
C28_OffStaysOff ==
    pending.wanted = "off" => ~getBackupSettings(storage, user, NoFault).autoBackup


\* the ids of a list of transactions
TxIds(txs) == {txs[k].id : k \in DOMAIN txs}

C30_PinGate ==
    (user # NoUser /\ app.pinEnabled /\ Displayed(app) = "AppStack") => app.verified

====
